---- MODULE Spec2Model ----
(***************************************************************************)
(* State-machine model of the serverless pooling backend                   *)
(* (proxy/src/serverless/backend.rs).                                      *)
(*                                                                         *)
(* Request tasks run on a multi-threaded executor.  One action is one      *)
(* lock-protected pool operation, or the completion of one await.  A task  *)
(* may be dropped (request cancelled) at any await.                        *)
(*                                                                         *)
(* SpecLocal  : tasks calling PoolingBackend::connect_to_local_postgres    *)
(* SpecRemote : tasks calling PoolingBackend::connect_to_compute           *)
(* SpecConnect: tasks calling connect_once of either mechanism            *)
(* SpecHttp2  : one HyperMechanism connect inside connect_http2            *)
(* SpecAuth   : tasks calling PoolingBackend::authenticate_with_password   *)
(***************************************************************************)
EXTENDS Integers, Sequences, FiniteSets, TLC

(***************************************************************************)
(* Bounds of the model and configuration values.                           *)
(***************************************************************************)
NumTasks == 2
NumConnInfos == 2
MaxCalls == 2
MaxConnsPerEndpoint == 1
MaxConnsGlobal == 2

\* wake_compute_retry_config: the attempt budget of the locate -> connect loop
MaxAttempts == 2
\* connect_compute_locks: connect permits per host
ConnectPermits == 1
\* wake permits per endpoint
WakePermits == 1
\* socket addresses, addresses in one DNS answer, and config.timeout in ticks
NumAddrs == 2
MaxResolved == 2
Timeout == 1
\* users, passwords, and the burst of the per-endpoint connection-attempt
\* rate limit
NumUsers == 2
NumPasswords == 2
RateBurst == 1
\* the longest --*-cache option string, in pieces
MaxOptionsLen == 6
\* the longest `pg_config --version` string, in pieces
MaxVersionLen == 5
NumTenants == 2

\* local.initialize is a single-permit semaphore
InitializePermits == 1

Tasks == 1 .. NumTasks
ConnInfos == 1 .. NumConnInfos
ClientIds == 1 .. MaxCalls

\* ConnInfo.endpoint: ConnInfos 1 and 2 are two (db, user) pairs of endpoint 1,
\* ConnInfos 3 and 4 of endpoint 2, ...
endpoint(c) == (c + 1) \div 2
Endpoints == {endpoint(c) : c \in ConnInfos}

(***************************************************************************)
(* HttpConnError and its classification.                                   *)
(***************************************************************************)
\* postgres_client::Error: whether it carries a DB error payload, and its own
\* could_retry / should_retry_wake_compute.  A DB error payload (the server
\* rejected the startup) allows no retry and no wake retry; an error without
\* one is a transport error, retried with or without a new wake_compute.
PgErrors ==
    {[db |-> TRUE, retry |-> FALSE, wake |-> FALSE],
     [db |-> FALSE, retry |-> TRUE, wake |-> TRUE],
     [db |-> FALSE, retry |-> TRUE, wake |-> FALSE]}

Plain(variant) == [variant |-> variant, db |-> FALSE, retry |-> FALSE, wake |-> FALSE]

NoError == Plain("none")
ComputeCtl == Plain("ComputeCtl")
PoolError == Plain("ConnectionClosedAbruptly")
WakeCompute == Plain("WakeCompute")
TooManyConnectionAttempts == Plain("TooManyConnectionAttempts")
JwtPayloadError == Plain("JwtPayloadError")
GetAuthInfo == Plain("GetAuthInfo")
AuthError == Plain("AuthError")
PostgresConnectionError(p) ==
    [variant |-> "PostgresConnectionError", db |-> p.db, retry |-> p.retry,
     wake |-> p.wake]

\* LocalProxyConnError and its own could_retry / should_retry_wake_compute
LocalProxyConnErrors == {"Io", "H2"}

local_proxy_could_retry(l) ==
    CASE l = "Io" -> FALSE
      [] l = "H2" -> FALSE

local_proxy_should_retry_wake_compute(l) ==
    CASE l = "Io" -> FALSE
      [] l = "H2" -> FALSE

LocalProxyConnectionError(l) ==
    [variant |-> "LocalProxyConnectionError", db |-> FALSE,
     retry |-> local_proxy_could_retry(l),
     wake |-> local_proxy_should_retry_wake_compute(l)]

\* mutant: the DB error payload is not looked at
get_error_kind_payload_ignored(e) ==
    CASE e.variant = "ConnectionClosedAbruptly" -> "Compute"
      [] e.variant = "PostgresConnectionError" -> "Compute"
      [] e.variant = "LocalProxyConnectionError" -> "Compute"
      [] e.variant = "ComputeCtl" -> "Service"
      [] e.variant = "JwtPayloadError" -> "User"
      [] OTHER -> "Inner"

get_error_kind(e) ==
    CASE e.variant = "ConnectionClosedAbruptly" -> "Compute"
      [] e.variant = "PostgresConnectionError" -> IF e.db THEN "Postgres" ELSE "Compute"
      [] e.variant = "LocalProxyConnectionError" -> "Compute"
      [] e.variant = "ComputeCtl" -> "Service"
      [] e.variant = "JwtPayloadError" -> "User"
      [] OTHER -> "Inner"

\* mutant: an error of the locator counts as retryable
could_retry_wake_error_retried(e) ==
    CASE e.variant = "PostgresConnectionError" -> e.retry
      [] e.variant = "LocalProxyConnectionError" -> e.retry
      [] e.variant = "WakeCompute" -> TRUE
      [] OTHER -> FALSE

\* mutant: an error of permit acquisition counts as retryable
could_retry_permit_timeout_retried(e) ==
    CASE e.variant = "PostgresConnectionError" -> e.retry
      [] e.variant = "LocalProxyConnectionError" -> e.retry
      [] e.variant = "TooManyConnectionAttempts" -> TRUE
      [] OTHER -> FALSE

could_retry(e) ==
    CASE e.variant = "PostgresConnectionError" -> e.retry
      [] e.variant = "LocalProxyConnectionError" -> e.retry
      [] OTHER -> FALSE

\* mutant: the answer of the postgres error is negated
should_retry_wake_compute_pg_negated(e) ==
    CASE e.variant = "PostgresConnectionError" -> ~e.wake
      [] e.variant = "TooManyConnectionAttempts" -> FALSE
      [] OTHER -> TRUE

\* mutant: a postgres error always asks for a new wake_compute
should_retry_wake_compute_pg_always(e) ==
    CASE e.variant = "PostgresConnectionError" -> TRUE
      [] e.variant = "TooManyConnectionAttempts" -> FALSE
      [] OTHER -> TRUE

\* mutant: a postgres error never asks for a new wake_compute
should_retry_wake_compute_pg_never(e) ==
    CASE e.variant = "PostgresConnectionError" -> FALSE
      [] e.variant = "TooManyConnectionAttempts" -> FALSE
      [] OTHER -> TRUE

should_retry_wake_compute(e) ==
    CASE e.variant = "PostgresConnectionError" -> e.wake
      [] e.variant = "TooManyConnectionAttempts" -> FALSE
      [] OTHER -> TRUE

(***************************************************************************)
(* Results of a call, as seen by the requester.                            *)
(***************************************************************************)
NoResult == [status |-> "none", err |-> NoError]
Ok == [status |-> "ok", err |-> NoError]
Cancelled == [status |-> "cancelled", err |-> NoError]
Err(e) == [status |-> "err", err |-> e]

(***************************************************************************)
(* PooledClient and the pool operations shared by the remote and the       *)
(* local pool.  A pool maps an endpoint to its idle clients, most recently *)
(* released first; the per-ConnInfo queue is the sub-sequence of one       *)
(* ConnInfo.                                                               *)
(***************************************************************************)
NewClient(c, ready) ==
    [conn_info |-> c, discard |-> FALSE, dirty |-> FALSE, closed |-> FALSE,
     errored |-> FALSE, expired |-> FALSE, ready |-> ready]

\* a client that is closed: neither owned by a task nor idle in a pool
ClosedClient ==
    [conn_info |-> 0, discard |-> FALSE, dirty |-> FALSE, closed |-> TRUE,
     errored |-> FALSE, expired |-> FALSE, ready |-> FALSE]

EmptyPool == [ep \in Endpoints |-> <<>>]

RECURSIVE RemoveAt(_, _)
RemoveAt(s, idx) ==
    IF s = <<>> THEN <<>>
    ELSE LET n == Len(s)
             rest == RemoveAt(SubSeq(s, 1, n - 1), idx)
         IN  IF n \in idx THEN rest ELSE Append(rest, s[n])

Range(s) == {s[i] : i \in DOMAIN s}

IdleIds(p) == UNION {Range(p[ep]) : ep \in Endpoints}

RECURSIVE SumLen(_, _)
SumLen(p, eps) ==
    IF eps = {} THEN 0
    ELSE LET ep == CHOOSE x \in eps : TRUE
         IN  Len(p[ep]) + SumLen(p, eps \ {ep})

IdleCount(p) == SumLen(p, Endpoints)

Min(S) == CHOOSE x \in S : \A y \in S : x <= y

\* get: the first idle client of the ConnInfo whose idle_ttl has not expired;
\* the expired clients scanned on the way are closed and removed.
Get(p, cls, c) ==
    LET lst == p[endpoint(c)]
        mine == {i \in DOMAIN lst : cls[lst[i]].conn_info = c}
        good == {i \in mine : ~cls[lst[i]].expired}
        hit == IF good = {} THEN 0 ELSE Min(good)
        gone == {i \in mine : cls[lst[i]].expired /\ (hit = 0 \/ i < hit)}
                  \cup (IF hit = 0 THEN {} ELSE {hit})
    IN  [client |-> IF hit = 0 THEN 0 ELSE lst[hit],
         pool |-> [p EXCEPT ![endpoint(c)] = RemoveAt(lst, gone)]]

\* release on drop of the handle: a discarded, dirty or closed client is closed;
\* otherwise it becomes the most recent idle client of its endpoint, the least
\* recently used one being evicted when the endpoint is at its cap; at the
\* global cap the released client is closed.
Put(p, cls, id) ==
    LET cl == cls[id]
        ep == endpoint(cl.conn_info)
    IN  IF cl.discard \/ cl.dirty \/ cl.closed THEN p
        ELSE IF Len(p[ep]) >= MaxConnsPerEndpoint
        THEN [p EXCEPT ![ep] = <<id>> \o SubSeq(p[ep], 1, MaxConnsPerEndpoint - 1)]
        ELSE IF IdleCount(p) >= MaxConnsGlobal THEN p
        ELSE [p EXCEPT ![ep] = <<id>> \o p[ep]]

\* the client table once every client that no handle owns and no idle list
\* holds has been closed
Reap(cls, p, handles) ==
    [id \in DOMAIN cls |->
        IF id \in IdleIds(p) \/ \E t \in Tasks : handles[t] = id
        THEN cls[id] ELSE ClosedClient]

\* what the requester saw while it used the client
RequesterOutcomes == {"ok", "error", "dirty", "closed"}

\* a transport error sets discard before the drop
Used(cl, outcome) ==
    CASE outcome = "error" -> [cl EXCEPT !.errored = TRUE, !.discard = TRUE]
      [] outcome = "dirty" -> [cl EXCEPT !.dirty = TRUE]
      [] outcome = "closed" -> [cl EXCEPT !.closed = TRUE]
      [] OTHER -> cl

(***************************************************************************)
(* The signing key of a local connection.                                  *)
(***************************************************************************)
\* SigningKey: keys are only compared, so a number stands for each; NoKey
\* stands for no key
SigningKey(n) == [secret |-> n]
NoKey == SigningKey(0)
\* key.verifying_key(): the public half of the key
verifying_key(key) == [public |-> key.secret]

\* jose_jwk::Key::Okp; d holds the private half, NoKey for None
Okp(x, d) == [crv |-> "Ed25519", x |-> x, d |-> d]
NoJwk == [crv |-> "none", x |-> verifying_key(NoKey), d |-> NoKey]
NoKeyJwk == [key |-> NoKey, jwk |-> NoJwk]

\* the least number that stands for no key of held
Unused(held) == CHOOSE n \in 1 .. Cardinality(held) + 1 :
                    /\ SigningKey(n) \notin held
                    /\ \A m \in 1 .. n - 1 : SigningKey(m) \in held

\* mutant: the private half goes into the JWK
create_random_jwk_with_d(held) ==
    LET key == SigningKey(Unused(held))
    IN  [key |-> key, jwk |-> Okp(verifying_key(key), key)]

\* mutant: one key serves every connection
create_random_jwk_one_key(held) ==
    LET key == SigningKey(1)
    IN  [key |-> key, jwk |-> Okp(verifying_key(key), NoKey)]

\* create_random_jwk: SigningKey::generate(&mut OsRng) gives a key that
\* nobody holds; the JWK carries its public half and d: None
create_random_jwk(held) ==
    LET key == SigningKey(Unused(held))
    IN  [key |-> key, jwk |-> Okp(verifying_key(key), NoKey)]

\* a local client: the key given to poll_client, the JWK its Postgres session
\* got in the startup options, where the client is, and whether auth.init ran
LocalClient(key, jwk) == [key |-> key, jwk |-> jwk, at |-> "owned", ready |-> FALSE]
ClosedLocalClient == [key |-> NoKey, jwk |-> NoJwk, at |-> "closed", ready |-> FALSE]

(***************************************************************************)
(* parse_cache_options (proxy main.rs).  A string is the sequence of its   *)
(* pieces: the words `size=` and `ttl=`, which the code only compares      *)
(* whole, the comma, digits, and the time unit s.                          *)
(***************************************************************************)
Digits == {"0", "5"}
Pieces == {"size=", "ttl=", ","} \cup Digits \cup {"s"}

DigitValue(d) == IF d = "0" THEN 0 ELSE 5

\* the number a string of digits denotes
RECURSIVE Number(_)
Number(str) ==
    IF str = <<>> THEN 0
    ELSE Number(SubSeq(str, 1, Len(str) - 1)) * 10 + DigitValue(str[Len(str)])

\* Option<T> and Result<T, E> of the parsers
None == [some |-> FALSE, val |-> 0]
Some(v) == [some |-> TRUE, val |-> v]

\* str::split_once(','): the parts before and after the first comma
split_once(str) ==
    LET commas == {i \in DOMAIN str : str[i] = ","}
    IN  IF commas = {} THEN None
        ELSE LET i == CHOOSE j \in commas : \A k \in commas : j <= k
             IN  Some(<<SubSeq(str, 1, i - 1), SubSeq(str, i + 1, Len(str))>>)

\* str::strip_prefix(word)
strip_prefix(str, word) ==
    IF str # <<>> /\ str[1] = word THEN Some(Tail(str)) ELSE None

\* str::parse::<usize>(): one digit at least and digits only
parse_usize(str) ==
    IF str # <<>> /\ \A i \in DOMAIN str : str[i] \in Digits
    THEN Some(Number(str)) ELSE None

\* humantime::parse_duration, in seconds: one group or more of a number and
\* a unit.  Whether a lone 0 without a unit is a duration depends on the
\* version of the library: `lenient` says it is.
RECURSIVE parse_duration(_, _)
parse_duration(str, lenient) ==
    LET units == {i \in DOMAIN str : str[i] \notin Digits}
    IN  IF str = <<>> THEN None
        ELSE IF units = {} THEN (IF lenient /\ str = <<"0">> THEN Some(0) ELSE None)
        ELSE LET i == CHOOSE j \in units : \A k \in units : j <= k
                 rest == SubSeq(str, i + 1, Len(str))
                 more == parse_duration(rest, FALSE)
             IN  IF i = 1 \/ str[i] # "s" THEN None
                 ELSE IF rest = <<>> THEN Some(Number(SubSeq(str, 1, i - 1)))
                 ELSE IF more.some
                 THEN Some(Number(SubSeq(str, 1, i - 1)) + more.val)
                 ELSE None

\* anyhow::Result<(usize, Duration)>
PaNoResult == [status |-> "none", size |-> 0, ttl |-> 0, err |-> ""]
PaOk(size, ttl) == [status |-> "ok", size |-> size, ttl |-> ttl, err |-> ""]
PaErr(msg) == [status |-> "err", size |-> 0, ttl |-> 0, err |-> msg]

\* mutant: no case of its own for "size=0"
parse_cache_options_no_literal(options, lenient) ==
    LET parts == split_once(options)
        size == strip_prefix(parts.val[1], "size=")
        ttl == strip_prefix(parts.val[2], "ttl=")
        n == parse_usize(size.val)
        d == parse_duration(ttl.val, lenient)
    IN  IF ~parts.some THEN PaErr("no comma found")
        ELSE IF ~size.some THEN PaErr("no size= prefix")
        ELSE IF ~ttl.some THEN PaErr("no ttl= prefix")
        ELSE IF ~n.some THEN PaErr("ParseIntError")
        ELSE IF ~d.some THEN PaErr("humantime::DurationError")
        ELSE PaOk(n.val, d.val)

parse_cache_options(options, lenient) ==
    LET parts == split_once(options)
        size == strip_prefix(parts.val[1], "size=")
        ttl == strip_prefix(parts.val[2], "ttl=")
        n == parse_usize(size.val)
        d == parse_duration(ttl.val, lenient)
    IN  IF options = <<"size=", "0">> THEN PaOk(0, 0)
        ELSE IF ~parts.some THEN PaErr("no comma found")
        ELSE IF ~size.some THEN PaErr("no size= prefix")
        ELSE IF ~ttl.some THEN PaErr("no ttl= prefix")
        ELSE IF ~n.some THEN PaErr("ParseIntError")
        ELSE IF ~d.some THEN PaErr("humantime::DurationError")
        ELSE PaOk(n.val, d.val)

(***************************************************************************)
(* parse_pg_version (compute_tools extension_server.rs).  A version string *)
(* is the sequence of its pieces: the word `PostgreSQL ` with its blank,   *)
(* digits, the dot and a letter.                                           *)
(***************************************************************************)
VersionDigits == {"1", "3", "4", "5", "6", "7"}
VersionPieces == {"PostgreSQL "} \cup VersionDigits \cup {".", "d"}

\* Regex `^PostgreSQL (?<major>\d+).+` on str: the lengths the group major
\* can have in a match, which needs a digit at least for \d+ and a character
\* at least for .+
MajorLengths(str) ==
    {k \in 1 .. Len(str) - 2 :
        /\ str[1] = "PostgreSQL "
        /\ \A i \in 2 .. k + 1 : str[i] \in VersionDigits}

\* Regex::captures: \d+ is greedy, so major is the longest that still
\* leaves a character to .+
captures(str) ==
    LET lens == MajorLengths(str)
    IN  IF lens = {} THEN None
        ELSE LET k == CHOOSE n \in lens : \A m \in lens : m <= n
             IN  Some(SubSeq(str, 2, k + 1))

parse_pg_version(human_version) ==
    LET caps == captures(human_version)
    IN  IF ~caps.some THEN "panic"
        ELSE CASE caps.val = <<"1", "4">> -> "PG14"
               [] caps.val = <<"1", "5">> -> "PG15"
               [] caps.val = <<"1", "6">> -> "PG16"
               [] caps.val = <<"1", "7">> -> "PG17"
               [] OTHER -> "panic"

(***************************************************************************)
(* The values of connect_http2.                                            *)
(***************************************************************************)
\* socket addresses; 0 stands for no address
Addrs == 1 .. NumAddrs

SslModes == {"Disable", "Prefer", "Require"}

\* what lookup_host may answer with: the addresses of the host, in order
RECURSIVE SeqsUpTo(_, _)
SeqsUpTo(S, n) ==
    IF n = 0 THEN {<<>>}
    ELSE LET shorter == SeqsUpTo(S, n - 1)
         IN  shorter \cup {Append(q, a) : q \in shorter, a \in S}

DnsAnswers == SeqsUpTo(Addrs, MaxResolved)

\* LocalProxyConnError::Io(io::Error) with the kind and message of the io
\* error and the address it came from, and LocalProxyConnError::H2
IoError(kind, addr, msg) == [conn |-> "Io", io |-> kind, addr |-> addr, msg |-> msg]
H2Error == [conn |-> "H2", io |-> "none", addr |-> 0, msg |-> ""]
NoLocalProxyConnError == [conn |-> "none", io |-> "none", addr |-> 0, msg |-> ""]

\* impl ReportableError for LocalProxyConnError
local_proxy_get_error_kind(l) ==
    CASE l = "Io" -> "Compute"
      [] l = "H2" -> "Compute"

\* the stream connect_http2 works on
NoStream == [addr |-> 0, tls |-> FALSE]

H2NoResult == [status |-> "none", err |-> NoLocalProxyConnError]
H2Ok == [status |-> "ok", err |-> NoLocalProxyConnError]
H2Err(e) == [status |-> "err", err |-> e]

(***************************************************************************)
(* The values of authenticate_with_password.                               *)
(***************************************************************************)
\* the two authentications that are compared, each a task that calls
\* authenticate_with_password again and again; calls share the rate limiter only
AuthTasks == {1, 2}
Users == 1 .. NumUsers
\* passwords, and the secrets made of them
Passwords == 1 .. NumPasswords
\* role_access.secret: None, and the value before get_role_secret has answered
NoSecret == 0
NotFetched == -1

\* ComputeUserInfo
UserInfo(user, ep) == [user |-> user, endpoint |-> ep]
NoUserInfo == UserInfo(0, 0)

\* Result<ComputeCredentials, AuthError>; password_failed carries the user
AuNoResult == [status |-> "none", err |-> "none", user |-> 0, info |-> NoUserInfo, keys |-> 0]
AuOk(info, key) == [status |-> "ok", err |-> "none", user |-> 0, info |-> info, keys |-> key]
AuErr(err) == [status |-> "err", err |-> err, user |-> 0, info |-> NoUserInfo, keys |-> 0]
password_failed(user) ==
    [status |-> "err", err |-> "password_failed", user |-> user,
     info |-> NoUserInfo, keys |-> 0]

VARIABLES
    lp_pc,           \* position of each task in connect_to_local_postgres
    lp_conn_info,    \* the conn_info argument of the task's call
    lp_handle,       \* the pool handle (client id) the task owns, or 0
    lp_result,       \* what the most recently returned call returned
    lp_connects,     \* loopback connects started by the task's call
    lp_calls,        \* calls made so far
    local_clients,   \* every local client created so far
    local_pool,      \* idle list of the local pool
    initialized,     \* local_pool's per-ConnInfo initialized flag
    initialize,      \* free permits of local_backend.initialize
    install_calls,   \* install_extension invocations per ConnInfo
    grant_calls,     \* grant_role invocations per ConnInfo
    init_aborts,     \* permit holds per ConnInfo ended by an error or a cancellation
    cc_pc,           \* position of each task in connect_to_compute
    cc_conn_info,    \* the conn_info argument of the task's call
    cc_force_new,    \* the force_new argument of the task's call
    cc_handle,       \* the pool handle (client id) the task owns, or 0
    cc_reused,       \* the handle the task owns came from pool.get
    cc_result,       \* what the most recently returned call returned
    cc_attempts,     \* connect_once calls made by the task's call
    cc_calls,        \* calls made so far
    clients,         \* every remote client created so far
    pool,            \* idle list of the remote pool
    wake_cache,      \* the wake cache: the endpoint has an entry
    wake_locks,      \* free wake permits per endpoint
    connect_locks,   \* free connect permits per host
    co_pc,           \* position of each task in a connect_once call
    co_mech,         \* the mechanism of the task's connect_once call
    co_host,         \* node_info.conn_info.host of the task's connect_once call
    co_result,       \* what the most recently ended connect_once call returned
    h2_pc,           \* position of the HyperMechanism connect in connect_http2
    h2_host_addr,    \* node_info.conn_info.host_addr: an address, or 0 for None
    h2_ssl_mode,     \* node_info.conn_info.ssl_mode
    h2_addrs,        \* connect_http2: the candidate addresses not yet tried
    h2_last_err,     \* connect_http2: last_err
    h2_lookups,      \* lookup_host calls made by the connect
    h2_tried,        \* addresses a TcpStream::connect was started to, in order
    h2_elapsed,      \* time since the TcpStream::connect in progress started
    h2_stream,       \* the connected stream: its address and whether TLS wraps it
    h2_result,       \* what connect_http2 returned
    h2_client,       \* poll_http2_client handed a client to the pool
    au_pc,           \* position of each task in authenticate_with_password
    au_user,         \* user_info.user of the task's latest call
    au_endpoint,     \* user_info.endpoint of the task's latest call
    au_password,     \* the password of the task's latest call
    au_secret,       \* role_access.secret of the task's latest call
    au_result,       \* what the task's latest call returned
    rate_tokens,     \* endpoint_rate_limiter: attempts left per endpoint
    jk_pc,           \* position of each task in the opening of a local connection
    jk_key_jwk,      \* (key, jwk) of the task's call, until the key is handed on
    jk_handle,       \* the local client whose handle the task owns, or 0
    jk_clients,      \* every local client created so far: its key, the JWK of
                     \* its session, and whether it is owned, idle or closed
    pa_options,      \* the `options` argument of parse_cache_options
    pa_result,       \* what parse_cache_options returned
    pv_human_version,  \* the human_version argument of parse_pg_version
    pv_result,       \* what parse_pg_version returned, or that it panicked
    en_pc,           \* position of each task in a call of an entry point
    en_fn,           \* the entry point of the task's latest call
    en_get,          \* what the pool lookup of that call gave, if it was made
    en_result,       \* what the task's latest call returned
    en_wakes,        \* wake_compute calls made for the task's latest call
    en_connects,     \* connects started for the task's latest call
    tenants,         \* TENANTS: the Repository entries under each tenant id
    tm_started,      \* init_tenant_mgr has run
    tm_result,       \* what the latest mgmt API call returned
    sd_pc,           \* position of shutdown_all_tenants
    sd_todo,         \* entries m.iter_mut() has not visited yet
    sd_tenant_ids,   \* the tenant_ids vector shutdown_all_tenants collects
    sd_i,            \* position of the checkpoint loop in tenant_ids
    sd_outcome       \* what the checkpoint loop did for each tenant id

localVars == <<lp_pc, lp_conn_info, lp_handle, lp_result, lp_connects, lp_calls,
               local_clients, local_pool, initialized, initialize,
               install_calls, grant_calls, init_aborts>>

remoteVars == <<cc_pc, cc_conn_info, cc_force_new, cc_handle, cc_reused, cc_result, cc_attempts, cc_calls, clients, pool, wake_cache,
                wake_locks, connect_locks>>

\* the remote state but the connect permits
driverVars == <<cc_pc, cc_conn_info, cc_force_new, cc_handle, cc_reused, cc_result,
                cc_attempts, cc_calls, clients, pool, wake_cache, wake_locks>>

connectVars == <<co_pc, co_mech, co_host, co_result>>

http2Vars == <<h2_pc, h2_host_addr, h2_ssl_mode, h2_addrs, h2_last_err,
               h2_lookups, h2_tried, h2_elapsed, h2_stream, h2_result,
               h2_client>>

authVars == <<au_pc, au_user, au_endpoint, au_password, au_secret,
              au_result, rate_tokens>>

\* the state of the backend calls modelled above
backendVars == <<localVars, remoteVars, connectVars, http2Vars, authVars>>

keyVars == <<jk_pc, jk_key_jwk, jk_handle, jk_clients>>

\* the state that no backend call above touches
cacheOptionsVars == <<pa_options, pa_result>>

pgVersionVars == <<pv_human_version, pv_result>>

entryVars == <<en_pc, en_fn, en_get, en_result, en_wakes, en_connects>>

tenantVars == <<tenants, tm_started, tm_result,
                sd_pc, sd_todo, sd_tenant_ids, sd_i, sd_outcome>>

extraVars == <<keyVars, cacheOptionsVars, pgVersionVars, entryVars, tenantVars>>

vars == <<backendVars, extraVars>>

InitLocal ==
    /\ lp_pc = [t \in Tasks |-> "idle"]
    /\ lp_conn_info = [t \in Tasks |-> 1]
    /\ lp_handle = [t \in Tasks |-> 0]
    /\ lp_result = NoResult
    /\ lp_connects = [t \in Tasks |-> 0]
    /\ lp_calls = 0
    /\ local_clients = <<>>
    /\ local_pool = EmptyPool
    /\ initialized = [c \in ConnInfos |-> FALSE]
    /\ initialize = InitializePermits
    /\ install_calls = [c \in ConnInfos |-> 0]
    /\ grant_calls = [c \in ConnInfos |-> 0]
    /\ init_aborts = [c \in ConnInfos |-> 0]

InitRemote ==
    /\ cc_pc = [t \in Tasks |-> "idle"]
    /\ cc_conn_info = [t \in Tasks |-> 1]
    /\ cc_force_new = [t \in Tasks |-> FALSE]
    /\ cc_handle = [t \in Tasks |-> 0]
    /\ cc_reused = [t \in Tasks |-> FALSE]
    /\ cc_result = NoResult
    /\ cc_attempts = [t \in Tasks |-> 0]
    /\ cc_calls = 0
    /\ clients = <<>>
    /\ pool = EmptyPool
    /\ wake_cache = [ep \in Endpoints |-> FALSE]
    /\ wake_locks = [ep \in Endpoints |-> WakePermits]
    /\ connect_locks = [ep \in Endpoints |-> ConnectPermits]

InitConnect ==
    /\ co_pc = [t \in Tasks |-> "idle"]
    /\ co_mech = [t \in Tasks |-> "Tokio"]
    /\ co_host = [t \in Tasks |-> 1]
    /\ co_result = NoResult

(***************************************************************************)
(* PoolingBackend::connect_to_local_postgres                               *)
(***************************************************************************)
\* the call returns; its locals die with it
LpReturn(t, res) ==
    /\ lp_pc' = [lp_pc EXCEPT ![t] = IF res = Ok THEN "done" ELSE "idle"]
    /\ lp_result' = res
    /\ lp_conn_info' = [lp_conn_info EXCEPT ![t] = 1]
    /\ lp_connects' = [lp_connects EXCEPT ![t] = 0]

\* conn_id, create_random_jwk, the client config, and the start of config.connect
LpStartConnect(t) ==
    /\ lp_pc' = [lp_pc EXCEPT ![t] = "connect"]
    /\ lp_connects' = [lp_connects EXCEPT ![t] = @ + 1]
    /\ UNCHANGED <<lp_conn_info, lp_result>>

\* the handle of task t drops: release to the pool, or close
LpDropHandle(t, cls) ==
    LET p == Put(local_pool, cls, lp_handle[t])
        h == [lp_handle EXCEPT ![t] = 0]
    IN  /\ local_pool' = p
        /\ lp_handle' = h
        /\ local_clients' = Reap(cls, p, h)

\* entry: local_pool.get(ctx, &conn_info)?
connect_to_local_postgres(t, c, get_fails) ==
    /\ lp_pc[t] = "idle"
    /\ lp_calls < MaxCalls
    /\ lp_calls' = lp_calls + 1
    /\ IF get_fails
       THEN /\ LpReturn(t, Err(PoolError))
            /\ UNCHANGED <<lp_handle, local_pool, local_clients>>
       ELSE LET got == Get(local_pool, local_clients, c)
                h == [lp_handle EXCEPT ![t] = got.client]
            IN  /\ local_pool' = got.pool
                /\ lp_handle' = h
                /\ local_clients' = Reap(local_clients, got.pool, h)
                /\ IF got.client # 0
                   THEN LpReturn(t, Ok)
                   ELSE /\ lp_pc' = [lp_pc EXCEPT ![t] = "check"]
                        /\ UNCHANGED lp_result
                        /\ lp_conn_info' = [lp_conn_info EXCEPT ![t] = c]
                        /\ lp_connects' = [lp_connects EXCEPT ![t] = 0]
    /\ UNCHANGED <<initialized, initialize, install_calls, grant_calls, init_aborts>>
    /\ UNCHANGED <<remoteVars, connectVars, http2Vars, authVars, extraVars>>

\* mutant: the initialized flag is not consulted before the connect
lp_check_initialized_skipped(t) ==
    /\ lp_pc[t] = "check"
    /\ LpStartConnect(t)
    /\ UNCHANGED <<lp_handle, lp_calls, local_clients, local_pool, initialized,
                   initialize, install_calls, grant_calls, init_aborts>>
    /\ UNCHANGED <<remoteVars, connectVars, http2Vars, authVars, extraVars>>

\* if !self.local_pool.initialized(&conn_info)
lp_check_initialized(t) ==
    /\ lp_pc[t] = "check"
    /\ IF initialized[lp_conn_info[t]]
       THEN LpStartConnect(t)
       ELSE /\ lp_pc' = [lp_pc EXCEPT ![t] = "acquire"]
            /\ UNCHANGED <<lp_connects, lp_conn_info, lp_result>>
    /\ UNCHANGED <<lp_handle, lp_calls, local_clients, local_pool, initialized,
                   initialize, install_calls, grant_calls, init_aborts>>
    /\ UNCHANGED <<remoteVars, connectVars, http2Vars, authVars, extraVars>>

\* mutant: the task does not wait for a free permit
lp_acquire_no_wait(t) ==
    /\ lp_pc[t] = "acquire"
    /\ initialize' = initialize - 1
    /\ lp_pc' = [lp_pc EXCEPT ![t] = "recheck"]
    /\ UNCHANGED <<lp_conn_info, lp_handle, lp_result, lp_connects, lp_calls,
                   local_clients, local_pool, initialized, install_calls,
                   grant_calls, init_aborts>>
    /\ UNCHANGED <<remoteVars, connectVars, http2Vars, authVars, extraVars>>

\* local_backend.initialize.acquire().await
lp_acquire(t) ==
    /\ lp_pc[t] = "acquire"
    /\ initialize > 0
    /\ initialize' = initialize - 1
    /\ lp_pc' = [lp_pc EXCEPT ![t] = "recheck"]
    /\ UNCHANGED <<lp_conn_info, lp_handle, lp_result, lp_connects, lp_calls,
                   local_clients, local_pool, initialized, install_calls,
                   grant_calls, init_aborts>>
    /\ UNCHANGED <<remoteVars, connectVars, http2Vars, authVars, extraVars>>

\* mutant: no second check of the flag under the permit
lp_recheck_missing(t) ==
    /\ lp_pc[t] = "recheck"
    /\ install_calls' = [install_calls EXCEPT ![lp_conn_info[t]] = @ + 1]
    /\ lp_pc' = [lp_pc EXCEPT ![t] = "install"]
    /\ UNCHANGED <<initialize, lp_connects, lp_conn_info, lp_result>>
    /\ UNCHANGED <<lp_handle, lp_calls, local_clients, local_pool, initialized,
                   grant_calls, init_aborts>>
    /\ UNCHANGED <<remoteVars, connectVars, http2Vars, authVars, extraVars>>

\* check again for race; when still not initialized, call install_extension
lp_recheck(t) ==
    /\ lp_pc[t] = "recheck"
    /\ IF initialized[lp_conn_info[t]]
       THEN /\ initialize' = initialize + 1
            /\ LpStartConnect(t)
            /\ UNCHANGED install_calls
       ELSE /\ install_calls' = [install_calls EXCEPT ![lp_conn_info[t]] = @ + 1]
            /\ lp_pc' = [lp_pc EXCEPT ![t] = "install"]
            /\ UNCHANGED <<initialize, lp_connects, lp_conn_info, lp_result>>
    /\ UNCHANGED <<lp_handle, lp_calls, local_clients, local_pool, initialized,
                   grant_calls, init_aborts>>
    /\ UNCHANGED <<remoteVars, connectVars, http2Vars, authVars, extraVars>>

\* install_extension returned Ok: call grant_role
lp_install_ok(t) ==
    /\ lp_pc[t] = "install"
    /\ grant_calls' = [grant_calls EXCEPT ![lp_conn_info[t]] = @ + 1]
    /\ lp_pc' = [lp_pc EXCEPT ![t] = "grant"]
    /\ UNCHANGED <<lp_conn_info, lp_handle, lp_result, lp_connects, lp_calls,
                   local_clients, local_pool, initialized, initialize,
                   install_calls, init_aborts>>
    /\ UNCHANGED <<remoteVars, connectVars, http2Vars, authVars, extraVars>>

\* mutant: the flag is set although the compute_ctl call failed
lp_compute_ctl_err_sets_flag(t) ==
    /\ lp_pc[t] \in {"install", "grant"}
    /\ initialize' = initialize + 1
    /\ init_aborts' = [init_aborts EXCEPT ![lp_conn_info[t]] = @ + 1]
    /\ initialized' = [initialized EXCEPT ![lp_conn_info[t]] = TRUE]
    /\ LpReturn(t, Err(ComputeCtl))
    /\ UNCHANGED <<lp_handle, lp_calls, local_clients, local_pool,
                   install_calls, grant_calls>>
    /\ UNCHANGED <<remoteVars, connectVars, http2Vars, authVars, extraVars>>

\* install_extension or grant_role returned Err: `?` returns
\* HttpConnError::ComputeCtl and drops the permit
lp_compute_ctl_err(t) ==
    /\ lp_pc[t] \in {"install", "grant"}
    /\ initialize' = initialize + 1
    /\ init_aborts' = [init_aborts EXCEPT ![lp_conn_info[t]] = @ + 1]
    /\ LpReturn(t, Err(ComputeCtl))
    /\ UNCHANGED <<lp_handle, lp_calls, local_clients, local_pool, initialized,
                   install_calls, grant_calls>>
    /\ UNCHANGED <<remoteVars, connectVars, http2Vars, authVars, extraVars>>

\* grant_role returned Ok: set_initialized, the permit drops, the connect starts
lp_grant_ok(t) ==
    /\ lp_pc[t] = "grant"
    /\ initialized' = [initialized EXCEPT ![lp_conn_info[t]] = TRUE]
    /\ initialize' = initialize + 1
    /\ LpStartConnect(t)
    /\ UNCHANGED <<lp_handle, lp_calls, local_clients, local_pool, install_calls,
                   grant_calls, init_aborts>>
    /\ UNCHANGED <<remoteVars, connectVars, http2Vars, authVars, extraVars>>

\* config.connect returned Ok: local_conn_pool::poll_client makes the handle and
\* `select auth.init();` is sent
lp_connect_ok(t) ==
    /\ lp_pc[t] = "connect"
    /\ local_clients' = Append(local_clients, NewClient(lp_conn_info[t], FALSE))
    /\ lp_handle' = [lp_handle EXCEPT ![t] = Len(local_clients) + 1]
    /\ lp_pc' = [lp_pc EXCEPT ![t] = "auth_init"]
    /\ UNCHANGED <<lp_conn_info, lp_result, lp_connects, lp_calls, local_pool,
                   initialized, initialize, install_calls, grant_calls, init_aborts>>
    /\ UNCHANGED <<remoteVars, connectVars, http2Vars, authVars, extraVars>>

\* mutant: a retryable error of config.connect starts the connect again
lp_connect_err_retried(t, e) ==
    /\ lp_pc[t] = "connect"
    /\ IF e.retry
       THEN LpStartConnect(t)
       ELSE LpReturn(t, Err(PostgresConnectionError(e)))
    /\ UNCHANGED <<lp_handle, lp_calls, local_clients, local_pool, initialized,
                   initialize, install_calls, grant_calls, init_aborts>>
    /\ UNCHANGED <<remoteVars, connectVars, http2Vars, authVars, extraVars>>

\* config.connect returned Err
lp_connect_err(t, e) ==
    /\ lp_pc[t] = "connect"
    /\ LpReturn(t, Err(PostgresConnectionError(e)))
    /\ UNCHANGED <<lp_handle, lp_calls, local_clients, local_pool, initialized,
                   initialize, install_calls, grant_calls, init_aborts>>
    /\ UNCHANGED <<remoteVars, connectVars, http2Vars, authVars, extraVars>>

\* batch_execute("select auth.init();") returned Ok
lp_auth_init_ok(t) ==
    /\ lp_pc[t] = "auth_init"
    /\ local_clients' = [local_clients EXCEPT ![lp_handle[t]].ready = TRUE]
    /\ LpReturn(t, Ok)
    /\ UNCHANGED <<lp_handle, lp_calls, local_pool, initialized, initialize,
                   install_calls, grant_calls, init_aborts>>
    /\ UNCHANGED <<remoteVars, connectVars, http2Vars, authVars, extraVars>>

\* mutant: the error is returned without discard.discard()
lp_auth_init_err_no_discard(t, e) ==
    /\ lp_pc[t] = "auth_init"
    /\ LpDropHandle(t, [local_clients EXCEPT ![lp_handle[t]].errored = TRUE])
    /\ LpReturn(t, Err(PostgresConnectionError(e)))
    /\ UNCHANGED <<lp_calls, initialized, initialize, install_calls, grant_calls,
                   init_aborts>>
    /\ UNCHANGED <<remoteVars, connectVars, http2Vars, authVars, extraVars>>

\* batch_execute returned Err: discard.discard(), return Err; the handle drops
lp_auth_init_err(t, e) ==
    /\ lp_pc[t] = "auth_init"
    /\ LpDropHandle(t, [local_clients EXCEPT ![lp_handle[t]].errored = TRUE,
                                             ![lp_handle[t]].discard = TRUE])
    /\ LpReturn(t, Err(PostgresConnectionError(e)))
    /\ UNCHANGED <<lp_calls, initialized, initialize, install_calls, grant_calls,
                   init_aborts>>
    /\ UNCHANGED <<remoteVars, connectVars, http2Vars, authVars, extraVars>>

\* the request is cancelled: the future is dropped at the await it is parked on,
\* and with it the permit and the handle it holds
lp_cancel(t) ==
    /\ lp_pc[t] \in {"acquire", "install", "grant", "connect", "auth_init"}
    /\ LpReturn(t, Cancelled)
    /\ IF lp_pc[t] \in {"install", "grant"}
       THEN /\ initialize' = initialize + 1
            /\ init_aborts' = [init_aborts EXCEPT ![lp_conn_info[t]] = @ + 1]
       ELSE UNCHANGED <<initialize, init_aborts>>
    /\ IF lp_pc[t] = "auth_init"
       THEN LpDropHandle(t, local_clients)
       ELSE UNCHANGED <<local_pool, lp_handle, local_clients>>
    /\ UNCHANGED <<lp_calls, initialized, install_calls, grant_calls>>
    /\ UNCHANGED <<remoteVars, connectVars, http2Vars, authVars, extraVars>>

\* the requester is done with the client and drops the handle
lp_requester_drop(t, outcome) ==
    /\ lp_pc[t] = "done"
    /\ LpDropHandle(t, [local_clients EXCEPT ![lp_handle[t]] = Used(@, outcome)])
    /\ lp_pc' = [lp_pc EXCEPT ![t] = "idle"]
    /\ UNCHANGED <<lp_conn_info, lp_result, lp_connects, lp_calls, initialized,
                   initialize, install_calls, grant_calls, init_aborts>>
    /\ UNCHANGED <<remoteVars, connectVars, http2Vars, authVars, extraVars>>

\* idle_ttl of an idle client runs out
lp_idle_ttl_expires(id) ==
    /\ id \in IdleIds(local_pool)
    /\ ~local_clients[id].expired
    /\ local_clients' = [local_clients EXCEPT ![id].expired = TRUE]
    /\ UNCHANGED <<lp_pc, lp_conn_info, lp_handle, lp_result, lp_connects, lp_calls,
                   local_pool, initialized, initialize, install_calls,
                   grant_calls, init_aborts>>
    /\ UNCHANGED <<remoteVars, connectVars, http2Vars, authVars, extraVars>>

\* the periodic sweeper closes an idle client past idle_ttl
lp_sweeper(id) ==
    /\ id \in IdleIds(local_pool)
    /\ local_clients[id].expired
    /\ LET p == [ep \in Endpoints |-> SelectSeq(local_pool[ep], LAMBDA x : x # id)]
       IN  /\ local_pool' = p
           /\ local_clients' = Reap(local_clients, p, lp_handle)
    /\ UNCHANGED <<lp_pc, lp_conn_info, lp_handle, lp_result, lp_connects, lp_calls,
                   initialized, initialize, install_calls, grant_calls, init_aborts>>
    /\ UNCHANGED <<remoteVars, connectVars, http2Vars, authVars, extraVars>>

NextLocal ==
    \/ \E t \in Tasks, c \in ConnInfos, f \in BOOLEAN : connect_to_local_postgres(t, c, f)
    \/ \E t \in Tasks : lp_check_initialized(t)
    \/ \E t \in Tasks : lp_acquire(t)
    \/ \E t \in Tasks : lp_recheck(t)
    \/ \E t \in Tasks : lp_install_ok(t)
    \/ \E t \in Tasks : lp_compute_ctl_err(t)
    \/ \E t \in Tasks : lp_grant_ok(t)
    \/ \E t \in Tasks : lp_connect_ok(t)
    \/ \E t \in Tasks, e \in PgErrors : lp_connect_err(t, e)
    \/ \E t \in Tasks : lp_auth_init_ok(t)
    \/ \E t \in Tasks, e \in PgErrors : lp_auth_init_err(t, e)
    \/ \E t \in Tasks : lp_cancel(t)
    \/ \E t \in Tasks, o \in RequesterOutcomes : lp_requester_drop(t, o)
    \/ \E id \in ClientIds : lp_idle_ttl_expires(id)
    \/ \E id \in ClientIds : lp_sweeper(id)

InitHttp2 ==
    /\ h2_pc = "idle"
    /\ h2_host_addr = 0
    /\ h2_ssl_mode = "Disable"
    /\ h2_addrs = <<>>
    /\ h2_last_err = NoLocalProxyConnError
    /\ h2_lookups = 0
    /\ h2_tried = <<>>
    /\ h2_elapsed = 0
    /\ h2_stream = NoStream
    /\ h2_result = H2NoResult
    /\ h2_client = FALSE

InitAuth ==
    /\ au_pc = [t \in AuthTasks |-> "idle"]
    /\ au_user = [t \in AuthTasks |-> 1]
    /\ au_endpoint = [t \in AuthTasks |-> 1]
    /\ au_password = [t \in AuthTasks |-> 1]
    /\ au_secret = [t \in AuthTasks |-> NotFetched]
    /\ au_result = [t \in AuthTasks |-> AuNoResult]
    /\ rate_tokens = [ep \in Endpoints |-> RateBurst]

InitKey ==
    /\ jk_pc = [t \in Tasks |-> "idle"]
    /\ jk_key_jwk = [t \in Tasks |-> NoKeyJwk]
    /\ jk_handle = [t \in Tasks |-> 0]
    /\ jk_clients = <<>>

InitCacheOptions ==
    /\ pa_options = <<>>
    /\ pa_result = PaNoResult

InitPgVersion ==
    /\ pv_human_version = <<>>
    /\ pv_result = "none"

(***************************************************************************)
(* The values of the tenant manager                                        *)
(***************************************************************************)
TenantIds == 1 .. NumTenants

TenantStates == {"Loading", "Attaching", "Active", "Stopping", "Broken"}

\* the states in which shutdown_all_tenants stops a tenant
StoppedByShutdown == {"Loading", "Attaching", "Active", "Stopping"}

NoTenantResult == [ok |-> TRUE, v |-> "no call yet"]

TenantOk(v) == [ok |-> TRUE, v |-> v]

TenantErr(msg) == [ok |-> FALSE, v |-> msg]

\* entry(tenant_id) is Occupied
Occupied(m, id) == m[id] # <<>>

\* the state of the Repository that the map gives for the id
get_state(m, id) == m[id][1]

\* the Repository of the id is moved to the state
SetState(m, id, st) == [m EXCEPT ![id] = [@ EXCEPT ![1] = st]]

\* the message attach_tenant fails with for a tenant in the state
AttachError(st) ==
    CASE st \in {"Loading", "Active"} -> "already exists"
      [] st = "Attaching" -> "attach is already in progress"
      [] st = "Stopping" -> "is being shut down"
      [] st = "Broken" -> "is marked as broken"

InitEntry ==
    /\ en_pc = [t \in Tasks |-> "idle"]
    /\ en_fn = [t \in Tasks |-> "none"]
    /\ en_get = [t \in Tasks |-> "unasked"]
    /\ en_result = [t \in Tasks |-> NoResult]
    /\ en_wakes = [t \in Tasks |-> 0]
    /\ en_connects = [t \in Tasks |-> 0]

InitTenant ==
    /\ tenants = [id \in TenantIds |-> <<>>]
    /\ tm_started = FALSE
    /\ tm_result = NoTenantResult
    /\ sd_pc = "idle"
    /\ sd_todo = {}
    /\ sd_tenant_ids = <<>>
    /\ sd_i = 1
    /\ sd_outcome = [id \in TenantIds |-> "none"]

Init ==
    /\ InitLocal /\ InitRemote /\ InitConnect /\ InitHttp2 /\ InitAuth
    /\ InitKey /\ InitCacheOptions /\ InitPgVersion /\ InitEntry
    /\ InitTenant

SpecLocal == Init /\ [][NextLocal]_vars

(***************************************************************************)
(* Properties of connect_to_local_postgres (checked under SpecLocal).      *)
(***************************************************************************)
\* tasks between acquiring local.initialize and releasing it
InInitSection == {t \in Tasks : lp_pc[t] \in {"recheck", "install", "grant"}}

LiveLocalIds ==
    {id \in DOMAIN local_clients : local_clients[id] # ClosedClient}

\* C1 as stated: install_extension and grant_role are each invoked at most once
\* per ConnInfo (no invocation follows the flag becoming true, so "before the
\* flag becomes true" is the whole run).
C1_InvokedAtMostOnce ==
    \A c \in ConnInfos : install_calls[c] <= 1 /\ grant_calls[c] <= 1

\* C1 amended: per ConnInfo, install_extension and grant_role are each invoked
\* at most once more than the number of initialization attempts that ended in
\* a compute_ctl error or a cancellation; once the flag is true no task is in
\* either call for that ConnInfo; and when no attempt was aborted an
\* initialized ConnInfo has seen exactly one install_extension and one
\* grant_role, however many callers raced.
C1_InvokedOncePerUnabortedAttempt ==
    \A c \in ConnInfos :
        /\ install_calls[c] <= init_aborts[c] + 1
        /\ grant_calls[c] <= init_aborts[c] + 1
        /\ grant_calls[c] <= install_calls[c]
        /\ initialized[c] =>
              /\ \A t \in Tasks :
                    ~(lp_pc[t] \in {"install", "grant"} /\ lp_conn_info[t] = c)
              /\ install_calls[c] >= 1 /\ grant_calls[c] >= 1
              /\ init_aborts[c] = 0 => install_calls[c] = 1 /\ grant_calls[c] = 1

\* two concurrent requests for the same new ConnInfo are both past the
\* initialization, after one install_extension and one grant_role
C1_Witness ==
    \E c \in ConnInfos : \E t1, t2 \in Tasks :
        /\ t1 # t2
        /\ lp_pc[t1] = "connect" /\ lp_pc[t2] = "connect"
        /\ lp_conn_info[t1] = c /\ lp_conn_info[t2] = c
        /\ install_calls[c] = 1 /\ grant_calls[c] = 1 /\ init_aborts[c] = 0

\* C2: at most one task is between acquiring local.initialize and releasing
\* it, whatever ConnInfos the callers use.
C2_InitSectionExclusive ==
    /\ Cardinality(InInitSection) <= 1
    /\ initialize = InitializePermits - Cardinality(InInitSection)

\* one task is in grant_role while a caller for another ConnInfo waits
C2_Witness ==
    \E t1, t2 \in Tasks :
        /\ lp_pc[t1] = "grant" /\ lp_pc[t2] = "acquire"
        /\ lp_conn_info[t1] # lp_conn_info[t2]

\* C3: no loopback connect is started, and no local client exists, for a
\* ConnInfo whose initialized flag is false.
C3_InitializedBeforeConnect ==
    /\ \A t \in Tasks :
          lp_pc[t] \in {"connect", "auth_init"} => initialized[lp_conn_info[t]]
    /\ \A id \in LiveLocalIds : initialized[local_clients[id].conn_info]

\* a request that found the flag already set by another request has its
\* connection open
C3_Witness ==
    \E t \in Tasks :
        /\ lp_pc[t] = "auth_init"
        /\ lp_calls = 2
        /\ install_calls[lp_conn_info[t]] = 1
        /\ \E u \in Tasks : u # t /\ lp_pc[u] = "connect"
                               /\ lp_conn_info[u] = lp_conn_info[t]

\* C4: the flag of a ConnInfo goes from false to true only in the step where
\* grant_role returns Ok to the permit holder, grant_role is called only when
\* install_extension has returned Ok in the same permit hold, and a failing
\* call returns HttpConnError::ComputeCtl (kind Service) with the flags
\* unchanged, the permit released and no connection opened by that call.
C4_FlagOnlyAfterInstallAndGrant ==
    [][ /\ \A c \in ConnInfos :
              (initialized'[c] /\ ~initialized[c]) =>
                  \E t \in Tasks :
                      /\ lp_pc[t] = "grant" /\ lp_conn_info[t] = c
                      /\ lp_pc'[t] = "connect"
                      /\ initialize' = initialize + 1
        /\ \A t \in Tasks :
              /\ (lp_pc'[t] = "grant" /\ lp_pc[t] # "grant") => lp_pc[t] = "install"
              /\ (lp_pc'[t] = "install" /\ lp_pc[t] # "install") =>
                    (lp_pc[t] = "recheck" /\ ~initialized[lp_conn_info[t]])
              /\ (lp_pc[t] \in {"install", "grant"} /\ lp_pc'[t] = "idle"
                      /\ lp_result'.status = "err") =>
                    /\ lp_result'.err = ComputeCtl
                    /\ get_error_kind(lp_result'.err) = "Service"
                    /\ initialized' = initialized
                    /\ initialize' = initialize + 1
                    /\ lp_connects[t] = 0
                    /\ local_clients' = local_clients
                    /\ lp_handle' = lp_handle
      ]_vars

\* grant_role failed after install_extension succeeded: the call returned the
\* ComputeCtl error, the flag is false and the permit is free
C4_Witness ==
    \E t \in Tasks : \E c \in ConnInfos :
        /\ lp_result = Err(ComputeCtl) /\ lp_pc[t] = "idle"
        /\ grant_calls[c] = 1 /\ init_aborts[c] = 1
        /\ ~initialized[c]
        /\ initialize = InitializePermits
        /\ local_clients = <<>>

\* C5 as stated: a client whose `select auth.init();` has not completed
\* successfully is never in the local pool's idle list.
C5_HalfInitializedNeverIdle ==
    \A id \in IdleIds(local_pool) : local_clients[id].ready

\* C6: in the step where `select auth.init();` fails the client is closed: it
\* is not idle in the local pool, no handle owns it, and a closed client never
\* comes back.
C6_AuthInitFailureDiscards ==
    [][ /\ \A t \in Tasks :
              (lp_pc[t] = "auth_init" /\ lp_pc'[t] = "idle"
                 /\ lp_result'.status = "err") =>
                  /\ lp_handle[t] \notin IdleIds(local_pool')
                  /\ lp_handle'[t] = 0
                  /\ local_clients'[lp_handle[t]] = ClosedClient
                  /\ local_pool' = local_pool
        /\ \A id \in DOMAIN local_clients :
              local_clients[id] = ClosedClient =>
                  /\ local_clients'[id] = ClosedClient
                  /\ id \notin IdleIds(local_pool')
                  /\ \A t \in Tasks : lp_handle'[t] # id
      ]_vars

\* the only call made opened a connection and returned the auth.init error;
\* its client is closed and the pool is empty
C6_Witness ==
    /\ lp_calls = 1
    /\ Len(local_clients) = 1
    /\ local_clients[1] = ClosedClient
    /\ local_pool = EmptyPool
    /\ lp_result.err.variant = "PostgresConnectionError"

\* C7: every client in an idle list has discard, dirty and closed false and
\* was never observed errored.
C7_IdleClientsClean ==
    \A id \in IdleIds(local_pool) :
        /\ ~local_clients[id].discard
        /\ ~local_clients[id].dirty
        /\ ~local_clients[id].closed
        /\ ~local_clients[id].errored

\* a client is idle in the pool after another one was dropped
C7_Witness ==
    /\ IdleIds(local_pool) # {}
    /\ \E id \in DOMAIN local_clients : local_clients[id] = ClosedClient

(***************************************************************************)
(* PoolingBackend::connect_to_compute with TokioMechanism, driven by        *)
(* proxy::connect_compute::connect_to_compute (locate -> connect loop).     *)
(***************************************************************************)
\* the call returns; its locals die with it
CcReturn(t, res) ==
    /\ cc_pc' = [cc_pc EXCEPT ![t] = IF res = Ok THEN "done" ELSE "idle"]
    /\ cc_result' = res
    /\ cc_conn_info' = [cc_conn_info EXCEPT ![t] = 1]
    /\ cc_force_new' = [cc_force_new EXCEPT ![t] = FALSE]
    /\ cc_attempts' = [cc_attempts EXCEPT ![t] = 0]

\* the call goes on to wake and connect
CcOpenNew(t, c, force_new) ==
    /\ cc_pc' = [cc_pc EXCEPT ![t] = "wake"]
    /\ cc_conn_info' = [cc_conn_info EXCEPT ![t] = c]
    /\ cc_force_new' = [cc_force_new EXCEPT ![t] = force_new]
    /\ UNCHANGED <<cc_result, cc_attempts>>

\* mutant: the pool is not consulted, as if force_new were set
connect_to_compute_pool_ignored(t, c, force_new, get_fails) ==
    /\ cc_pc[t] = "idle"
    /\ cc_calls < MaxCalls
    /\ cc_calls' = cc_calls + 1
    /\ CcOpenNew(t, c, force_new)
    /\ UNCHANGED <<cc_handle, cc_reused, pool, clients>>
    /\ UNCHANGED <<wake_cache, wake_locks, connect_locks>>
    /\ UNCHANGED <<localVars, connectVars, http2Vars, authVars, extraVars>>

\* mutant: the pool is consulted whatever force_new says
connect_to_compute_force_new_ignored(t, c, force_new, get_fails) ==
    /\ cc_pc[t] = "idle"
    /\ cc_calls < MaxCalls
    /\ cc_calls' = cc_calls + 1
    /\ IF get_fails
       THEN /\ CcReturn(t, Err(PoolError))
            /\ UNCHANGED <<cc_handle, cc_reused, pool, clients>>
       ELSE LET got == Get(pool, clients, c)
                h == [cc_handle EXCEPT ![t] = got.client]
            IN  /\ pool' = got.pool
                /\ cc_handle' = h
                /\ cc_reused' = [cc_reused EXCEPT ![t] = got.client # 0]
                /\ clients' = Reap(clients, got.pool, h)
                /\ IF got.client # 0
                   THEN CcReturn(t, Ok)
                   ELSE CcOpenNew(t, c, force_new)
    /\ UNCHANGED <<wake_cache, wake_locks, connect_locks>>
    /\ UNCHANGED <<localVars, connectVars, http2Vars, authVars, extraVars>>

\* entry: the pool lookup unless force_new; a found client is returned
connect_to_compute(t, c, force_new, get_fails) ==
    /\ cc_pc[t] = "idle"
    /\ cc_calls < MaxCalls
    /\ cc_calls' = cc_calls + 1
    /\ IF force_new
       THEN /\ CcOpenNew(t, c, force_new)
            /\ UNCHANGED <<cc_handle, cc_reused, pool, clients>>
       ELSE IF get_fails
       THEN /\ CcReturn(t, Err(PoolError))
            /\ UNCHANGED <<cc_handle, cc_reused, pool, clients>>
       ELSE LET got == Get(pool, clients, c)
                h == [cc_handle EXCEPT ![t] = got.client]
            IN  /\ pool' = got.pool
                /\ cc_handle' = h
                /\ cc_reused' = [cc_reused EXCEPT ![t] = got.client # 0]
                /\ clients' = Reap(clients, got.pool, h)
                /\ IF got.client # 0
                   THEN CcReturn(t, Ok)
                   ELSE CcOpenNew(t, c, force_new)
    /\ UNCHANGED <<wake_cache, wake_locks, connect_locks>>
    /\ UNCHANGED <<localVars, connectVars, http2Vars, authVars, extraVars>>

\* mutant: the attempt budget is not consulted
CcAfterError_budget_ignored(t, e) ==
    IF ~could_retry(e)
    THEN /\ CcReturn(t, Err(e))
         /\ UNCHANGED wake_cache
    ELSE IF should_retry_wake_compute(e)
    THEN /\ wake_cache' = [wake_cache EXCEPT ![endpoint(cc_conn_info[t])] = FALSE]
         /\ cc_pc' = [cc_pc EXCEPT ![t] = "wake"]
         /\ UNCHANGED <<cc_conn_info, cc_force_new, cc_result, cc_attempts>>
    ELSE /\ cc_pc' = [cc_pc EXCEPT ![t] = "get_permit"]
         /\ UNCHANGED <<cc_conn_info, cc_force_new, cc_result, cc_attempts,
                        wake_cache>>

\* driver step 3: what follows an error of the locator or of connect_once;
\* invalidate() evicts the entry of the endpoint from the wake cache
CcAfterError(t, e) ==
    IF ~could_retry(e) \/ cc_attempts[t] >= MaxAttempts
    THEN /\ CcReturn(t, Err(e))
         /\ UNCHANGED wake_cache
    ELSE IF should_retry_wake_compute(e)
    THEN /\ wake_cache' = [wake_cache EXCEPT ![endpoint(cc_conn_info[t])] = FALSE]
         /\ cc_pc' = [cc_pc EXCEPT ![t] = "wake"]
         /\ UNCHANGED <<cc_conn_info, cc_force_new, cc_result, cc_attempts>>
    ELSE /\ cc_pc' = [cc_pc EXCEPT ![t] = "get_permit"]
         /\ UNCHANGED <<cc_conn_info, cc_force_new, cc_result, cc_attempts,
                        wake_cache>>

\* driver step 1, wake_compute: the wake cache lookup
cc_wake_compute(t) ==
    /\ cc_pc[t] = "wake"
    /\ cc_force_new' = [cc_force_new EXCEPT ![t] = FALSE]
    /\ cc_pc' = [cc_pc EXCEPT ![t] = IF wake_cache[endpoint(cc_conn_info[t])]
                                       THEN "get_permit" ELSE "wake_permit"]
    /\ UNCHANGED <<cc_conn_info, cc_handle, cc_reused, cc_result, cc_attempts,
                   cc_calls, clients, pool, wake_cache, wake_locks, connect_locks>>
    /\ UNCHANGED <<localVars, connectVars, http2Vars, authVars, extraVars>>

\* mutant: the cache is not checked again under the wake permit
cc_wake_acquire_no_recheck(t) ==
    /\ cc_pc[t] = "wake_permit"
    /\ LET ep == endpoint(cc_conn_info[t])
       IN  /\ wake_locks[ep] > 0
           /\ wake_locks' = [wake_locks EXCEPT ![ep] = @ - 1]
           /\ cc_pc' = [cc_pc EXCEPT ![t] = "wake_call"]
    /\ UNCHANGED <<cc_conn_info, cc_force_new, cc_handle, cc_reused, cc_result,
                   cc_attempts, cc_calls, clients, pool, wake_cache, connect_locks>>
    /\ UNCHANGED <<localVars, connectVars, http2Vars, authVars, extraVars>>

\* wake_compute on a miss: the wake permit is acquired and the cache checked
\* again; still a miss, the control-plane request is sent
cc_wake_acquire(t) ==
    /\ cc_pc[t] = "wake_permit"
    /\ LET ep == endpoint(cc_conn_info[t])
       IN  /\ wake_locks[ep] > 0
           /\ IF wake_cache[ep]
              THEN /\ cc_pc' = [cc_pc EXCEPT ![t] = "get_permit"]
                   /\ UNCHANGED wake_locks
              ELSE /\ wake_locks' = [wake_locks EXCEPT ![ep] = @ - 1]
                   /\ cc_pc' = [cc_pc EXCEPT ![t] = "wake_call"]
    /\ UNCHANGED <<cc_conn_info, cc_force_new, cc_handle, cc_reused, cc_result,
                   cc_attempts, cc_calls, clients, pool, wake_cache, connect_locks>>
    /\ UNCHANGED <<localVars, connectVars, http2Vars, authVars, extraVars>>

\* the wake permit is not acquired within the budget
cc_wake_permit_timeout(t) ==
    /\ cc_pc[t] = "wake_permit"
    /\ wake_locks[endpoint(cc_conn_info[t])] = 0
    /\ CcAfterError(t, TooManyConnectionAttempts)
    /\ UNCHANGED <<cc_handle, cc_reused, cc_calls, clients, pool, wake_locks, connect_locks>>
    /\ UNCHANGED <<localVars, connectVars, http2Vars, authVars, extraVars>>

\* the control plane answers: the cache is populated, the wake permit released
cc_wake_ok(t) ==
    /\ cc_pc[t] = "wake_call"
    /\ LET ep == endpoint(cc_conn_info[t])
       IN  /\ wake_cache' = [wake_cache EXCEPT ![ep] = TRUE]
           /\ wake_locks' = [wake_locks EXCEPT ![ep] = @ + 1]
    /\ cc_pc' = [cc_pc EXCEPT ![t] = "get_permit"]
    /\ UNCHANGED <<cc_conn_info, cc_force_new, cc_handle, cc_reused, cc_result,
                   cc_attempts, cc_calls, clients, pool, connect_locks>>
    /\ UNCHANGED <<localVars, connectVars, http2Vars, authVars, extraVars>>

\* the control-plane request fails
cc_wake_err(t) ==
    /\ cc_pc[t] = "wake_call"
    /\ wake_locks' = [wake_locks EXCEPT ![endpoint(cc_conn_info[t])] = @ + 1]
    /\ CcAfterError(t, WakeCompute)
    /\ UNCHANGED <<cc_handle, cc_reused, cc_calls, clients, pool, connect_locks>>
    /\ UNCHANGED <<localVars, connectVars, http2Vars, authVars, extraVars>>

\* TokioMechanism::connect_once: get_permit, then config.connect is started
cc_get_permit(t) ==
    /\ cc_pc[t] = "get_permit"
    /\ LET host == endpoint(cc_conn_info[t])
       IN  /\ connect_locks[host] > 0
           /\ connect_locks' = [connect_locks EXCEPT ![host] = @ - 1]
    /\ cc_attempts' = [cc_attempts EXCEPT ![t] = @ + 1]
    /\ cc_pc' = [cc_pc EXCEPT ![t] = "connecting"]
    /\ UNCHANGED <<cc_conn_info, cc_force_new, cc_handle, cc_reused, cc_result, cc_calls, clients, pool, wake_cache, wake_locks>>
    /\ UNCHANGED <<localVars, connectVars, http2Vars, authVars, extraVars>>

\* TokioMechanism::connect_once: get_permit times out, `?` returns
\* TooManyConnectionAttempts to the driver
cc_get_permit_timeout(t) ==
    /\ cc_pc[t] = "get_permit"
    /\ connect_locks[endpoint(cc_conn_info[t])] = 0
    /\ CcAfterError(t, TooManyConnectionAttempts)
    /\ UNCHANGED <<cc_handle, cc_reused, cc_calls, clients, pool, wake_locks, connect_locks>>
    /\ UNCHANGED <<localVars, connectVars, http2Vars, authVars, extraVars>>

\* mutant: the new client is handed to the requester and also left in the pool
cc_connect_ok_also_pooled(t) ==
    /\ cc_pc[t] = "connecting"
    /\ connect_locks' = [connect_locks EXCEPT ![endpoint(cc_conn_info[t])] = @ + 1]
    /\ clients' = Append(clients, NewClient(cc_conn_info[t], TRUE))
    /\ cc_handle' = [cc_handle EXCEPT ![t] = Len(clients) + 1]
    /\ UNCHANGED cc_reused
    /\ pool' = [pool EXCEPT ![endpoint(cc_conn_info[t])] = <<Len(clients) + 1>> \o @]
    /\ CcReturn(t, Ok)
    /\ UNCHANGED <<cc_calls, wake_cache, wake_locks>>
    /\ UNCHANGED <<localVars, connectVars, http2Vars, authVars, extraVars>>

\* TokioMechanism::connect_once: config.connect returned Ok; release_result
\* takes the permit, poll_client makes the handle that is returned
cc_connect_ok(t) ==
    /\ cc_pc[t] = "connecting"
    /\ connect_locks' = [connect_locks EXCEPT ![endpoint(cc_conn_info[t])] = @ + 1]
    /\ clients' = Append(clients, NewClient(cc_conn_info[t], TRUE))
    /\ cc_handle' = [cc_handle EXCEPT ![t] = Len(clients) + 1]
    /\ UNCHANGED cc_reused
    /\ CcReturn(t, Ok)
    /\ UNCHANGED <<cc_calls, pool, wake_cache, wake_locks>>
    /\ UNCHANGED <<localVars, connectVars, http2Vars, authVars, extraVars>>

\* TokioMechanism::connect_once: config.connect returned Err; release_result
\* releases the permit and `?` returns the error to the driver
cc_connect_err(t, e) ==
    /\ cc_pc[t] = "connecting"
    /\ connect_locks' = [connect_locks EXCEPT ![endpoint(cc_conn_info[t])] = @ + 1]
    /\ CcAfterError(t, PostgresConnectionError(e))
    /\ UNCHANGED <<cc_handle, cc_reused, cc_calls, clients, pool, wake_locks>>
    /\ UNCHANGED <<localVars, connectVars, http2Vars, authVars, extraVars>>

\* the request is cancelled: the future is dropped at the await it is parked on,
\* and with it the permit it holds
cc_cancel(t) ==
    /\ cc_pc[t] \in {"wake_permit", "wake_call", "get_permit", "connecting"}
    /\ LET ep == endpoint(cc_conn_info[t])
       IN  /\ wake_locks' = [wake_locks EXCEPT
                 ![ep] = IF cc_pc[t] = "wake_call" THEN @ + 1 ELSE @]
           /\ connect_locks' = [connect_locks EXCEPT
                 ![ep] = IF cc_pc[t] = "connecting" THEN @ + 1 ELSE @]
    /\ CcReturn(t, Cancelled)
    /\ UNCHANGED <<cc_handle, cc_reused, cc_calls, clients, pool, wake_cache>>
    /\ UNCHANGED <<localVars, connectVars, http2Vars, authVars, extraVars>>

\* the requester is done with the client and drops the handle: the client is
\* released to the pool
cc_requester_drop(t, outcome) ==
    /\ cc_pc[t] = "done"
    /\ LET id == cc_handle[t]
           cls == [clients EXCEPT ![id] = Used(clients[id], outcome)]
           p == Put(pool, cls, id)
           h == [cc_handle EXCEPT ![t] = 0]
       IN  /\ pool' = p
           /\ cc_handle' = h
           /\ cc_reused' = [cc_reused EXCEPT ![t] = FALSE]
           /\ clients' = Reap(cls, p, h)
    /\ cc_pc' = [cc_pc EXCEPT ![t] = "idle"]
    /\ UNCHANGED <<cc_conn_info, cc_force_new, cc_result, cc_attempts,
                   cc_calls, wake_cache, wake_locks,
                   connect_locks>>
    /\ UNCHANGED <<localVars, connectVars, http2Vars, authVars, extraVars>>

\* idle_ttl of an idle client runs out
cc_idle_ttl_expires(id) ==
    /\ id \in IdleIds(pool)
    /\ ~clients[id].expired
    /\ clients' = [clients EXCEPT ![id].expired = TRUE]
    /\ UNCHANGED <<cc_pc, cc_conn_info, cc_force_new, cc_handle, cc_reused, cc_result, cc_attempts, cc_calls, pool, wake_cache,
                   wake_locks, connect_locks>>
    /\ UNCHANGED <<localVars, connectVars, http2Vars, authVars, extraVars>>

\* the periodic sweeper closes an idle client past idle_ttl
cc_sweeper(id) ==
    /\ id \in IdleIds(pool)
    /\ clients[id].expired
    /\ LET p == [ep \in Endpoints |-> SelectSeq(pool[ep], LAMBDA x : x # id)]
       IN  /\ pool' = p
           /\ clients' = Reap(clients, p, cc_handle)
    /\ UNCHANGED <<cc_pc, cc_conn_info, cc_force_new, cc_handle, cc_reused, cc_result, cc_attempts, cc_calls, wake_cache, wake_locks, connect_locks>>
    /\ UNCHANGED <<localVars, connectVars, http2Vars, authVars, extraVars>>

NextRemote ==
    \/ \E t \in Tasks, c \in ConnInfos, f \in BOOLEAN, g \in BOOLEAN :
          connect_to_compute(t, c, f, g)
    \/ \E t \in Tasks : cc_wake_compute(t)
    \/ \E t \in Tasks : cc_wake_acquire(t)
    \/ \E t \in Tasks : cc_wake_permit_timeout(t)
    \/ \E t \in Tasks : cc_wake_ok(t)
    \/ \E t \in Tasks : cc_wake_err(t)
    \/ \E t \in Tasks : cc_get_permit(t)
    \/ \E t \in Tasks : cc_get_permit_timeout(t)
    \/ \E t \in Tasks : cc_connect_ok(t)
    \/ \E t \in Tasks, e \in PgErrors : cc_connect_err(t, e)
    \/ \E t \in Tasks : cc_cancel(t)
    \/ \E t \in Tasks, o \in RequesterOutcomes : cc_requester_drop(t, o)
    \/ \E id \in ClientIds : cc_idle_ttl_expires(id)
    \/ \E id \in ClientIds : cc_sweeper(id)

SpecRemote == Init /\ [][NextRemote]_vars

(***************************************************************************)
(* Properties of the pools and of connect_to_compute                        *)
(***************************************************************************)
\* the tasks whose handle is the client
Owners(handles, id) == {t \in Tasks : handles[t] = id}

\* the places of the idle lists that hold the client
IdlePlaces(p, id) ==
    {x \in Endpoints \X (1 .. Cardinality(ClientIds)) :
        x[2] \in DOMAIN p[x[1]] /\ p[x[1]][x[2]] = id}

OwnedXorIdle(cls, p, handles) ==
    /\ \A t \in Tasks : handles[t] \in {0} \cup DOMAIN cls
    /\ \A id \in DOMAIN cls :
          LET n == Cardinality(Owners(handles, id))
                     + Cardinality(IdlePlaces(p, id))
          IN  IF cls[id] = ClosedClient THEN n = 0 ELSE n = 1

\* C8: in every reachable state each client that is not closed is either owned
\* by exactly one task or held once in the idle list of its pool, never both
\* and never owned by two tasks; this for the remote and for the local pool.
C8_OwnedByOneTaskOrIdle ==
    /\ OwnedXorIdle(clients, pool, cc_handle)
    /\ OwnedXorIdle(local_clients, local_pool, lp_handle)

\* a task owns a client it connected while a client released earlier is idle
C8_Witness ==
    \E t \in Tasks :
        /\ cc_pc[t] = "done"
        /\ ~cc_reused[t]
        /\ IdleIds(pool) # {}

LiveIds == {id \in DOMAIN clients : clients[id] # ClosedClient}

\* C9 as stated: the live clients of the remote pool, owned or idle, never
\* number more than max_conns_global, nor more than max_conns_per_endpoint
\* under one endpoint.
C9_LiveWithinCaps ==
    /\ Cardinality(LiveIds) <= MaxConnsGlobal
    /\ \A ep \in Endpoints :
          Cardinality({id \in LiveIds : endpoint(clients[id].conn_info) = ep})
              <= MaxConnsPerEndpoint

\* the idle clients of the ConnInfo that get may return
Reusable(c) ==
    {id \in Range(pool[endpoint(c)]) :
        clients[id].conn_info = c /\ ~clients[id].expired}

WakeCallers(ep) ==
    {t \in Tasks : cc_pc[t] = "wake_call" /\ endpoint(cc_conn_info[t]) = ep}

\* the tasks that missed the wake cache for the endpoint and wait for the
\* wake permit
WakeWaiters(ep) ==
    {t \in Tasks : cc_pc[t] = "wake_permit" /\ endpoint(cc_conn_info[t]) = ep}

\* C11 as stated: of the requesters that miss the wake cache for one endpoint
\* at the same time, at most one is in a control-plane wake_compute call, and
\* when that call ends the cache holds its result for the requesters that
\* wait behind the permit, so that none of them makes a call of its own.
C11_AtMostOneWakeCall ==
    /\ [](\A ep \in Endpoints : Cardinality(WakeCallers(ep)) <= 1)
    /\ [][\A ep \in Endpoints : \A t \in WakeCallers(ep) :
            (cc_pc'[t] # "wake_call" /\ WakeWaiters(ep) # {}) => wake_cache'[ep]
         ]_vars

\* C11 amended: per endpoint the control-plane wake_compute calls in flight
\* are exactly the wake permits taken, so never more than the permits of the
\* endpoint; a requester makes the call only when, holding the permit, it
\* still finds no entry in the cache; a requester that gets the permit when
\* the cache has an entry uses it, takes no permit and makes no call.  (A call
\* that fails or is cancelled leaves no entry: the next requester calls.)
C11_WakeCallsBoundedByPermits ==
    /\ [](\A ep \in Endpoints :
            /\ Cardinality(WakeCallers(ep)) + wake_locks[ep] = WakePermits
            /\ wake_locks[ep] >= 0)
    /\ [][\A t \in Tasks :
            LET ep == endpoint(cc_conn_info[t])
            IN  /\ (cc_pc[t] # "wake_call" /\ cc_pc'[t] = "wake_call")
                     => /\ cc_pc[t] = "wake_permit"
                        /\ ~wake_cache[ep]
                        /\ wake_locks[ep] > 0
                /\ (cc_pc[t] = "wake_permit" /\ cc_pc'[t] = "get_permit")
                     => wake_cache[ep] /\ UNCHANGED <<wake_locks, wake_cache>>
         ]_vars

\* two requesters missed the cache for one endpoint: one is in the
\* control-plane call, the other waits for the permit
C11_Witness ==
    \E ep \in Endpoints : WakeCallers(ep) # {} /\ WakeWaiters(ep) # {}

(***************************************************************************)
(* connect_once of TokioMechanism and of HyperMechanism, as the driver      *)
(* calls it for a request task.  Both mechanisms take their permit from    *)
(* the same locks, config.connect_compute_locks, keyed by the host.        *)
(***************************************************************************)
Mechanisms == {"Tokio", "Hyper"}
Hosts == Endpoints

\* what the connect of the mechanism may fail with
ConnectErrors(mech) ==
    IF mech = "Tokio"
    THEN {PostgresConnectionError(p) : p \in PgErrors}
    ELSE {LocalProxyConnectionError(l) : l \in LocalProxyConnErrors}

\* connect_once returns; a returned connection keeps its host
CoReturn(t, res) ==
    /\ co_pc' = [co_pc EXCEPT ![t] = IF res = Ok THEN "returned" ELSE "idle"]
    /\ co_result' = res
    /\ co_mech' = [co_mech EXCEPT ![t] = "Tokio"]
    /\ co_host' = [co_host EXCEPT ![t] = IF res = Ok THEN @ ELSE 1]

\* the call: locks.get_permit(host) is awaited
CoCall(t, mech, host) ==
    /\ co_pc[t] = "idle"
    /\ co_pc' = [co_pc EXCEPT ![t] = "get_permit"]
    /\ co_mech' = [co_mech EXCEPT ![t] = mech]
    /\ co_host' = [co_host EXCEPT ![t] = host]
    /\ UNCHANGED <<co_result, connect_locks>>
    /\ UNCHANGED <<localVars, driverVars, http2Vars, authVars, extraVars>>

\* mutant: the connect is started without a permit
CoGetPermit_not_awaited(t, mech) ==
    /\ co_pc[t] = "get_permit"
    /\ co_mech[t] = mech
    /\ connect_locks' = [connect_locks EXCEPT ![co_host[t]] = @ - 1]
    /\ co_pc' = [co_pc EXCEPT ![t] = "connecting"]
    /\ UNCHANGED <<co_mech, co_host, co_result>>
    /\ UNCHANGED <<localVars, driverVars, http2Vars, authVars, extraVars>>

\* get_permit returns the permit: the connect is started
CoGetPermit(t, mech) ==
    /\ co_pc[t] = "get_permit"
    /\ co_mech[t] = mech
    /\ connect_locks[co_host[t]] > 0
    /\ connect_locks' = [connect_locks EXCEPT ![co_host[t]] = @ - 1]
    /\ co_pc' = [co_pc EXCEPT ![t] = "connecting"]
    /\ UNCHANGED <<co_mech, co_host, co_result>>
    /\ UNCHANGED <<localVars, driverVars, http2Vars, authVars, extraVars>>

\* get_permit times out: `?` returns TooManyConnectionAttempts
CoGetPermitTimeout(t, mech) ==
    /\ co_pc[t] = "get_permit"
    /\ co_mech[t] = mech
    /\ connect_locks[co_host[t]] = 0
    /\ CoReturn(t, Err(TooManyConnectionAttempts))
    /\ UNCHANGED connect_locks
    /\ UNCHANGED <<localVars, driverVars, http2Vars, authVars, extraVars>>

\* the connect returned Ok: permit.release_result(res) takes the permit, the
\* pool's poll function makes the client that is returned
CoConnectOk(t, mech) ==
    /\ co_pc[t] = "connecting"
    /\ co_mech[t] = mech
    /\ connect_locks' = [connect_locks EXCEPT ![co_host[t]] = @ + 1]
    /\ CoReturn(t, Ok)
    /\ UNCHANGED <<localVars, driverVars, http2Vars, authVars, extraVars>>

\* mutant: the error is returned with the permit still taken
CoConnectErr_permit_kept(t, mech, e) ==
    /\ co_pc[t] = "connecting"
    /\ co_mech[t] = mech
    /\ e \in ConnectErrors(mech)
    /\ CoReturn(t, Err(e))
    /\ UNCHANGED connect_locks
    /\ UNCHANGED <<localVars, driverVars, http2Vars, authVars, extraVars>>

\* the connect returned Err: permit.release_result(res) releases the permit
\* and `?` returns the error
CoConnectErr(t, mech, e) ==
    /\ co_pc[t] = "connecting"
    /\ co_mech[t] = mech
    /\ e \in ConnectErrors(mech)
    /\ connect_locks' = [connect_locks EXCEPT ![co_host[t]] = @ + 1]
    /\ CoReturn(t, Err(e))
    /\ UNCHANGED <<localVars, driverVars, http2Vars, authVars, extraVars>>

tokio_connect_once(t, host) == CoCall(t, "Tokio", host)
tokio_get_permit(t) == CoGetPermit(t, "Tokio")
tokio_get_permit_timeout(t) == CoGetPermitTimeout(t, "Tokio")
tokio_connect_ok(t) == CoConnectOk(t, "Tokio")
tokio_connect_err(t, e) == CoConnectErr(t, "Tokio", e)

hyper_connect_once(t, host) == CoCall(t, "Hyper", host)
hyper_get_permit(t) == CoGetPermit(t, "Hyper")
hyper_get_permit_timeout(t) == CoGetPermitTimeout(t, "Hyper")
hyper_connect_ok(t) == CoConnectOk(t, "Hyper")
hyper_connect_err(t, e) == CoConnectErr(t, "Hyper", e)

\* the request is cancelled while connect_once awaits get_permit or the
\* connect: the future is dropped, and with it the permit it holds
co_cancel(t) ==
    /\ co_pc[t] \in {"get_permit", "connecting"}
    /\ connect_locks' = [connect_locks EXCEPT
          ![co_host[t]] = IF co_pc[t] = "connecting" THEN @ + 1 ELSE @]
    /\ CoReturn(t, Cancelled)
    /\ UNCHANGED <<localVars, driverVars, http2Vars, authVars, extraVars>>

\* the requester drops the client handle connect_once returned
co_drop_client(t) ==
    /\ co_pc[t] = "returned"
    /\ co_pc' = [co_pc EXCEPT ![t] = "idle"]
    /\ co_host' = [co_host EXCEPT ![t] = 1]
    /\ UNCHANGED <<co_mech, co_result, connect_locks>>
    /\ UNCHANGED <<localVars, driverVars, http2Vars, authVars, extraVars>>

NextConnect ==
    \/ \E t \in Tasks, h \in Hosts : tokio_connect_once(t, h)
    \/ \E t \in Tasks : tokio_get_permit(t)
    \/ \E t \in Tasks : tokio_get_permit_timeout(t)
    \/ \E t \in Tasks : tokio_connect_ok(t)
    \/ \E t \in Tasks, e \in ConnectErrors("Tokio") : tokio_connect_err(t, e)
    \/ \E t \in Tasks, h \in Hosts : hyper_connect_once(t, h)
    \/ \E t \in Tasks : hyper_get_permit(t)
    \/ \E t \in Tasks : hyper_get_permit_timeout(t)
    \/ \E t \in Tasks : hyper_connect_ok(t)
    \/ \E t \in Tasks, e \in ConnectErrors("Hyper") : hyper_connect_err(t, e)
    \/ \E t \in Tasks : co_cancel(t)
    \/ \E t \in Tasks : co_drop_client(t)

SpecConnect == Init /\ [][NextConnect]_vars

(***************************************************************************)
(* Properties of the connect permit                                         *)
(***************************************************************************)
\* the tasks whose connect_once holds a permit of the host: between get_permit
\* and release_result
InFlight(h) == {t \in Tasks : co_pc[t] = "connecting" /\ co_host[t] = h}

\* the tasks that own a client connect_once returned for the host
Returned(h) == {t \in Tasks : co_pc[t] = "returned" /\ co_host[t] = h}

\* C12: a connect permit never leaks.  Every permit of a host that is not free
\* is held by a connect_once in flight or belongs to a client it returned; a
\* connect_once of either mechanism that ends in an error, or whose task is
\* cancelled, returns no connection and leaves the permit it held free again
\* (a call that ended before it got a permit frees none).
C12_PermitNeverLeaks ==
    /\ [](\A h \in Hosts :
            /\ connect_locks[h] <= ConnectPermits
            /\ connect_locks[h] + Cardinality(InFlight(h))
                  + Cardinality(Returned(h)) >= ConnectPermits)
    /\ [][\A t \in Tasks :
            (co_pc[t] \in {"get_permit", "connecting"} /\ co_pc'[t] = "idle")
               => /\ co_result'.status \in {"err", "cancelled"}
                  /\ connect_locks' = [connect_locks EXCEPT ![co_host[t]] =
                        IF co_pc[t] = "connecting" THEN @ + 1 ELSE @]
                  /\ \A h \in Hosts : Returned(h)' = Returned(h)
         ]_vars

\* a connect_once that held a permit ended in the error of its connect: every
\* permit is free and no task owns a connection
C12_Witness ==
    /\ co_result.status = "err"
    /\ co_result.err.variant \in {"PostgresConnectionError",
                                  "LocalProxyConnectionError"}
    /\ \A t \in Tasks : co_pc[t] = "idle"
    /\ \A h \in Hosts : connect_locks[h] = ConnectPermits

\* C13 as stated: while a task owns the client a successful connect_once
\* returned, the connect permit of that connect_once is still taken; it is
\* released when the client handle is dropped.
C13_PermitHeldUntilClientDrop ==
    \A h \in Hosts :
        connect_locks[h] + Cardinality(InFlight(h)) + Cardinality(Returned(h))
            = ConnectPermits

\* C14: for every host the connect attempts in flight never number more than
\* the per-host permits, and a connect_once starts its connect only by taking
\* a permit that is free: with every permit taken, one more caller stays in
\* get_permit until a permit is released.
C14_InFlightWithinPermits ==
    /\ [](\A h \in Hosts :
            /\ Cardinality(InFlight(h)) <= ConnectPermits
            /\ connect_locks[h] >= 0)
    /\ [][\A t \in Tasks :
            (co_pc[t] # "connecting" /\ co_pc'[t] = "connecting")
               => /\ co_pc[t] = "get_permit"
                  /\ Cardinality(InFlight(co_host[t])) < ConnectPermits
                  /\ connect_locks[co_host[t]] > 0
                  /\ connect_locks'[co_host[t]] = connect_locks[co_host[t]] - 1
         ]_vars

\* every permit of a host is taken by a connect in flight and one more caller
\* waits in get_permit
C14_Witness ==
    \E h \in Hosts :
        /\ Cardinality(InFlight(h)) = ConnectPermits
        /\ \E t \in Tasks : co_pc[t] = "get_permit" /\ co_host[t] = h

(***************************************************************************)
(* Claims C15 .. C20: the classification of errors by the driver.          *)
(***************************************************************************)
\* C15: when the connect permit is not acquired in time, connect_once fails
\* with TooManyConnectionAttempts before a connect is started (no permit is
\* taken, no connection made), the error is neither retryable nor wake
\* retryable, and the driver surfaces it: the call ends with that error, with
\* no new wake call and the wake cache as it was.
C15_PermitTimeoutSurfaced ==
    /\ [](/\ ~could_retry(TooManyConnectionAttempts)
          /\ ~should_retry_wake_compute(TooManyConnectionAttempts))
    /\ [][\A t \in Tasks :
            cc_get_permit_timeout(t)
               => /\ cc_pc'[t] = "idle"
                  /\ cc_result' = Err(TooManyConnectionAttempts)
                  /\ \A u \in Tasks : cc_pc'[u] \notin {"connecting", "wake_call"}
                                          \/ cc_pc'[u] = cc_pc[u]
                  /\ UNCHANGED <<wake_cache, wake_locks, connect_locks,
                                 clients, pool, cc_handle>>
         ]_vars

\* a call ended with TooManyConnectionAttempts while the other task holds the
\* only connect permit of the host
C15_Witness ==
    /\ cc_result = Err(TooManyConnectionAttempts)
    /\ \E t \in Tasks : /\ cc_pc[t] = "connecting"
                         /\ connect_locks[endpoint(cc_conn_info[t])] = 0
    /\ \A ep \in Endpoints : wake_locks[ep] = WakePermits

\* C16: a postgres connection error with a DB error payload is of kind
\* Postgres, and when connect_once fails with it the driver surfaces it: the
\* call ends with that error, no task goes on to a connect or a wake call and
\* the wake cache is as it was.
C16_DbErrorSurfaced ==
    /\ [](\A e \in PgErrors :
            e.db => get_error_kind(PostgresConnectionError(e)) = "Postgres")
    /\ [][\A t \in Tasks : \A e \in PgErrors :
            (e.db /\ cc_connect_err(t, e))
               => /\ cc_pc'[t] = "idle"
                  /\ cc_result' = Err(PostgresConnectionError(e))
                  /\ get_error_kind(cc_result'.err) = "Postgres"
                  /\ \A u \in Tasks : u # t => cc_pc'[u] = cc_pc[u]
                  /\ UNCHANGED <<wake_cache, wake_locks>>
         ]_vars

\* a call ended with a DB error of kind Postgres and the wake cache still
\* holds the node info it connected with
C16_Witness ==
    /\ cc_result.status = "err"
    /\ cc_result.err.variant = "PostgresConnectionError"
    /\ cc_result.err.db
    /\ get_error_kind(cc_result.err) = "Postgres"
    /\ \E ep \in Endpoints : wake_cache[ep]
    /\ \A t \in Tasks : cc_pc[t] = "idle"

\* C17: a postgres connection error without a DB error payload is of kind
\* Compute, and a wake retry is allowed for it: when connect_once fails with
\* one that is retryable and asks for a new wake_compute, within the attempt
\* budget, the driver invalidates the cache entry and goes back to
\* wake_compute.
C17_NoPayloadWakeRetry ==
    /\ [](\A e \in PgErrors :
            ~e.db => get_error_kind(PostgresConnectionError(e)) = "Compute")
    /\ [][\A t \in Tasks : \A e \in PgErrors :
            (/\ ~e.db /\ e.retry /\ e.wake
             /\ cc_pc[t] = "connecting"
             /\ cc_attempts[t] < MaxAttempts
             /\ cc_connect_err(t, e))
               => /\ cc_pc'[t] = "wake"
                  /\ wake_cache'[endpoint(cc_conn_info[t])] = FALSE
                  /\ cc_result' = cc_result
         ]_vars

\* after a failed connect a task is back at wake_compute with the entry of its
\* endpoint invalidated
C17_Witness ==
    \E t \in Tasks :
        /\ cc_pc[t] = "wake"
        /\ cc_attempts[t] >= 1
        /\ ~wake_cache[endpoint(cc_conn_info[t])]

\* the variants of HttpConnError that never carry a retryable error
NeverRetried ==
    {AuthError, GetAuthInfo, JwtPayloadError, ComputeCtl, WakeCompute,
     TooManyConnectionAttempts, PoolError}

\* C18: could_retry is false for AuthError, GetAuthInfo, JwtPayloadError,
\* ComputeCtl, WakeCompute, TooManyConnectionAttempts and
\* ConnectionClosedAbruptly, and when the locator or connect_once fails with an
\* error whose could_retry is false the driver surfaces it: the call ends with
\* that error, no task goes on to a connect or a wake call, and the wake cache
\* is as it was.
C18_NonRetryableSurfaced ==
    /\ [](\A e \in NeverRetried : ~could_retry(e))
    /\ [][\A t \in Tasks :
            (\/ cc_wake_err(t)
             \/ cc_wake_permit_timeout(t)
             \/ cc_get_permit_timeout(t)
             \/ \E e \in PgErrors : ~e.retry /\ cc_connect_err(t, e))
               => /\ cc_pc'[t] = "idle"
                  /\ cc_result'.status = "err"
                  /\ ~could_retry(cc_result'.err)
                  /\ \A u \in Tasks : u # t => cc_pc'[u] = cc_pc[u]
                  /\ wake_cache' = wake_cache
         ]_vars

\* the locator failed with WakeCompute and the call ended with it: nothing is
\* cached and every wake permit is free
C18_Witness ==
    /\ cc_result = Err(WakeCompute)
    /\ \A t \in Tasks : cc_pc[t] = "idle"
    /\ \A ep \in Endpoints : ~wake_cache[ep] /\ wake_locks[ep] = WakePermits

C20_RetrySameNodeInfo ==
    /\ [][\A t \in Tasks : \A e \in PgErrors :
            (/\ e.retry /\ ~e.wake
             /\ cc_attempts[t] < MaxAttempts
             /\ cc_connect_err(t, e))
               => /\ cc_pc'[t] = "get_permit"
                  /\ cc_conn_info'[t] = cc_conn_info[t]
                  /\ cc_attempts'[t] = cc_attempts[t]
                  /\ UNCHANGED <<wake_cache, wake_locks>>
         ]_vars
    /\ [][\A t \in Tasks :
            (cc_pc[t] = "get_permit" /\ cc_pc'[t] # "get_permit")
               => /\ cc_pc'[t] \in {"connecting", "idle"}
                  /\ UNCHANGED <<wake_cache, wake_locks>>
         ]_vars

\* the second attempt of a call is connecting while the entry of its endpoint
\* is still cached
C20_Witness ==
    \E t \in Tasks :
        /\ cc_pc[t] = "connecting"
        /\ cc_attempts[t] = MaxAttempts
        /\ wake_cache[endpoint(cc_conn_info[t])]

(***************************************************************************)
(* Claim C21: the locate -> connect loop terminates.                       *)
(***************************************************************************)
\* the steps of the driver and of connect_once for the call of task t
CcStep(t) ==
    \/ cc_wake_compute(t)
    \/ cc_wake_acquire(t)
    \/ cc_wake_permit_timeout(t)
    \/ cc_wake_ok(t)
    \/ cc_wake_err(t)
    \/ cc_get_permit(t)
    \/ cc_get_permit_timeout(t)
    \/ cc_connect_ok(t)
    \/ \E e \in PgErrors : cc_connect_err(t, e)

CcInFlight(t) == cc_pc[t] \notin {"idle", "done"}

\* how far the call of task t is from its end: the attempts left in the
\* budget, then the position in the current round of locate -> connect
CcStage(pc) ==
    CASE pc = "connecting" -> 6
      [] pc = "wake" -> 5
      [] pc = "wake_permit" -> 4
      [] pc = "wake_call" -> 3
      [] pc = "get_permit" -> 2
      [] OTHER -> 0

CcRank(pc, attempts) == (MaxAttempts - attempts) * 7 + CcStage(pc)

\* C21: every call terminates with success or an error, and its locate ->
\* connect loop makes at most MaxAttempts connect attempts, whatever errors
\* the upstream answers with: a call in flight can always take a step, and
\* each of its steps ends it or brings it nearer to the end of the budget.
C21_CallTerminates ==
    /\ [](\A t \in Tasks :
            /\ cc_attempts[t] <= MaxAttempts
            /\ CcRank(cc_pc[t], cc_attempts[t]) >= 0
            /\ CcInFlight(t) => ENABLED CcStep(t))
    /\ [][\A t \in Tasks :
            (CcInFlight(t) /\ CcStep(t))
               => \/ ~CcInFlight(t)'
                  \/ CcRank(cc_pc'[t], cc_attempts'[t])
                        < CcRank(cc_pc[t], cc_attempts[t])
         ]_vars

\* the last attempt of the budget failed with a retryable error and the call
\* ended with it
C21_Witness ==
    /\ cc_result.status = "err"
    /\ cc_result.err.variant = "PostgresConnectionError"
    /\ cc_result.err.retry
    /\ \A t \in Tasks : ~CcInFlight(t)

(***************************************************************************)
(* Claim C22: the local-postgres path is never retried.                    *)
(***************************************************************************)
\* C22: one connect_to_local_postgres call starts at most one loopback
\* connect, a failure of that connect ends the call with the error of the
\* connect, whether or not the error is retryable, and no step of the path
\* asks the locator or touches the wake cache.
C22_LocalPostgresNeverRetried ==
    /\ [](\A t \in Tasks : lp_connects[t] <= 1)
    /\ [][\A t \in Tasks : \A e \in PgErrors :
            lp_connect_err(t, e)
               => /\ lp_pc'[t] = "idle"
                  /\ lp_result' = Err(PostgresConnectionError(e))
                  /\ \A u \in Tasks : u # t => lp_pc'[u] = lp_pc[u]
         ]_vars
    /\ [][UNCHANGED <<wake_cache, wake_locks, cc_pc>>]_vars

\* a call ended with a retryable error of its connect and no client was made
C22_Witness ==
    /\ lp_result.status = "err"
    /\ lp_result.err.variant = "PostgresConnectionError"
    /\ lp_result.err.retry
    /\ \A t \in Tasks : lp_pc[t] = "idle" /\ lp_handle[t] = 0
    /\ local_clients = <<>>
    /\ \E c \in ConnInfos : initialized[c]

(***************************************************************************)
(* HyperMechanism::connect_once from the permit on: connect_http2, then    *)
(* release_result and poll_http2_client.                                   *)
(***************************************************************************)
\* mutant: TLS only with ssl_mode Require
Tls_only_when_required(ssl_mode) == ssl_mode = "Require"

\* `tls` of connect_once: None with ssl_mode Disable, else the TLS config
Tls(ssl_mode) == ssl_mode # "Disable"

\* connect_http2 returns; release_result passes an error on with `?`, and
\* poll_http2_client hands the client of an Ok to the pool
H2Return(res) ==
    /\ h2_pc' = "returned"
    /\ h2_result' = res
    /\ h2_client' = (res.status = "ok")

\* mutant: with no candidate left and no last_err, last_err is returned as is
H2Loop_no_synthetic_error(addrs, last_err) ==
    /\ h2_last_err' = last_err
    /\ IF addrs = <<>>
       THEN /\ H2Return(H2Err(last_err))
            /\ h2_addrs' = <<>>
            /\ UNCHANGED <<h2_tried, h2_elapsed>>
       ELSE /\ h2_pc' = "tcp"
            /\ h2_addrs' = Tail(addrs)
            /\ h2_tried' = Append(h2_tried, Head(addrs))
            /\ h2_elapsed' = 0
            /\ UNCHANGED <<h2_result, h2_client>>

\* mutant: the loop starts with the last candidate address
H2Loop_last_first(addrs, last_err) ==
    /\ h2_last_err' = last_err
    /\ IF addrs = <<>>
       THEN /\ H2Return(H2Err(
                  IF last_err # NoLocalProxyConnError
                  THEN last_err
                  ELSE IoError("InvalidInput", 0, "could not resolve any addresses")))
            /\ h2_addrs' = <<>>
            /\ UNCHANGED <<h2_tried, h2_elapsed>>
       ELSE /\ h2_pc' = "tcp"
            /\ h2_addrs' = SubSeq(addrs, 1, Len(addrs) - 1)
            /\ h2_tried' = Append(h2_tried, addrs[Len(addrs)])
            /\ h2_elapsed' = 0
            /\ UNCHANGED <<h2_result, h2_client>>

\* the head of the loop: with no candidate left return last_err, or the
\* InvalidInput error when there is none; else start TcpStream::connect to the
\* next candidate under tokio::time::timeout
H2Loop(addrs, last_err) ==
    /\ h2_last_err' = last_err
    /\ IF addrs = <<>>
       THEN /\ H2Return(H2Err(
                  IF last_err # NoLocalProxyConnError
                  THEN last_err
                  ELSE IoError("InvalidInput", 0, "could not resolve any addresses")))
            /\ h2_addrs' = <<>>
            /\ UNCHANGED <<h2_tried, h2_elapsed>>
       ELSE /\ h2_pc' = "tcp"
            /\ h2_addrs' = Tail(addrs)
            /\ h2_tried' = Append(h2_tried, Head(addrs))
            /\ h2_elapsed' = 0
            /\ UNCHANGED <<h2_result, h2_client>>

\* the address of the TcpStream::connect in progress
H2Addr == h2_tried[Len(h2_tried)]

\* mutant: with host_addr the address is a candidate twice
hyper_connect_http2_two_attempts(host_addr, ssl_mode) ==
    /\ h2_pc = "idle"
    /\ h2_host_addr' = host_addr
    /\ h2_ssl_mode' = ssl_mode
    /\ IF host_addr # 0
       THEN H2Loop(<<host_addr, host_addr>>, NoLocalProxyConnError)
       ELSE /\ h2_pc' = "lookup_host"
            /\ UNCHANGED <<h2_addrs, h2_last_err, h2_tried, h2_elapsed,
                           h2_result, h2_client>>
    /\ UNCHANGED <<h2_lookups, h2_stream>>
    /\ UNCHANGED <<localVars, remoteVars, connectVars, authVars, extraVars>>

\* mutant: lookup_host is awaited whether or not host_addr is present
hyper_connect_http2_always_lookup(host_addr, ssl_mode) ==
    /\ h2_pc = "idle"
    /\ h2_host_addr' = host_addr
    /\ h2_ssl_mode' = ssl_mode
    /\ h2_pc' = "lookup_host"
    /\ UNCHANGED <<h2_addrs, h2_last_err, h2_tried, h2_elapsed, h2_result,
                   h2_client>>
    /\ UNCHANGED <<h2_lookups, h2_stream>>
    /\ UNCHANGED <<localVars, remoteVars, connectVars, authVars, extraVars>>

\* connect_once calls connect_http2: with host_addr the candidates are that
\* one address, without it lookup_host is awaited
hyper_connect_http2(host_addr, ssl_mode) ==
    /\ h2_pc = "idle"
    /\ h2_host_addr' = host_addr
    /\ h2_ssl_mode' = ssl_mode
    /\ IF host_addr # 0
       THEN H2Loop(<<host_addr>>, NoLocalProxyConnError)
       ELSE /\ h2_pc' = "lookup_host"
            /\ UNCHANGED <<h2_addrs, h2_last_err, h2_tried, h2_elapsed,
                           h2_result, h2_client>>
    /\ UNCHANGED <<h2_lookups, h2_stream>>
    /\ UNCHANGED <<localVars, remoteVars, connectVars, authVars, extraVars>>

\* lookup_host answered with the addresses of the host
h2_lookup_host_ok(answer) ==
    /\ h2_pc = "lookup_host"
    /\ h2_lookups' = h2_lookups + 1
    /\ H2Loop(answer, NoLocalProxyConnError)
    /\ UNCHANGED <<h2_host_addr, h2_ssl_mode, h2_stream>>
    /\ UNCHANGED <<localVars, remoteVars, connectVars, authVars, extraVars>>

\* lookup_host failed: map_err(LocalProxyConnError::Io)?
h2_lookup_host_err ==
    /\ h2_pc = "lookup_host"
    /\ h2_lookups' = h2_lookups + 1
    /\ H2Return(H2Err(IoError("Other", 0, "lookup_host")))
    /\ UNCHANGED <<h2_host_addr, h2_ssl_mode, h2_addrs, h2_last_err, h2_tried,
                   h2_elapsed, h2_stream>>
    /\ UNCHANGED <<localVars, remoteVars, connectVars, authVars, extraVars>>

\* time passes while TcpStream::connect is in progress
h2_tick ==
    /\ h2_pc = "tcp"
    /\ h2_elapsed < Timeout
    /\ h2_elapsed' = h2_elapsed + 1
    /\ UNCHANGED <<h2_pc, h2_host_addr, h2_ssl_mode, h2_addrs, h2_last_err,
                   h2_lookups, h2_tried, h2_stream, h2_result, h2_client>>
    /\ UNCHANGED <<localVars, remoteVars, connectVars, authVars, extraVars>>

\* Ok(Ok(stream)): set_nodelay(true), whose error is returned, then break
h2_tcp_connected(nodelay_ok) ==
    /\ h2_pc = "tcp"
    /\ IF nodelay_ok
       THEN /\ h2_stream' = [addr |-> H2Addr, tls |-> FALSE]
            /\ h2_pc' = IF Tls(h2_ssl_mode) THEN "tls" ELSE "handshake"
            /\ UNCHANGED <<h2_result, h2_client>>
       ELSE /\ H2Return(H2Err(IoError("Other", H2Addr, "set_nodelay")))
            /\ UNCHANGED h2_stream
    /\ UNCHANGED <<h2_host_addr, h2_ssl_mode, h2_addrs, h2_last_err, h2_lookups,
                   h2_tried, h2_elapsed>>
    /\ UNCHANGED <<localVars, remoteVars, connectVars, authVars, extraVars>>

\* Ok(Err(e)): the connect failed, here refused; last_err = Io(e)
h2_tcp_refused ==
    /\ h2_pc = "tcp"
    /\ H2Loop(h2_addrs, IoError("ConnectionRefused", H2Addr, ""))
    /\ UNCHANGED <<h2_host_addr, h2_ssl_mode, h2_lookups, h2_stream>>
    /\ UNCHANGED <<localVars, remoteVars, connectVars, authVars, extraVars>>

\* Err(elapsed): the timeout fired; last_err = Io(TimedOut)
h2_tcp_timeout ==
    /\ h2_pc = "tcp"
    /\ h2_elapsed = Timeout
    /\ H2Loop(h2_addrs, IoError("TimedOut", H2Addr, ""))
    /\ UNCHANGED <<h2_host_addr, h2_ssl_mode, h2_lookups, h2_stream>>
    /\ UNCHANGED <<localVars, remoteVars, connectVars, authVars, extraVars>>

\* DnsName::try_from and TlsConnector::connect returned Ok
h2_tls_ok ==
    /\ h2_pc = "tls"
    /\ h2_stream' = [h2_stream EXCEPT !.tls = TRUE]
    /\ h2_pc' = "handshake"
    /\ UNCHANGED <<h2_host_addr, h2_ssl_mode, h2_addrs, h2_last_err, h2_lookups,
                   h2_tried, h2_elapsed, h2_result, h2_client>>
    /\ UNCHANGED <<localVars, remoteVars, connectVars, authVars, extraVars>>

\* DnsName::try_from or TlsConnector::connect failed: map_err(Io)?
h2_tls_err ==
    /\ h2_pc = "tls"
    /\ H2Return(H2Err(IoError("Other", h2_stream.addr, "tls")))
    /\ UNCHANGED <<h2_host_addr, h2_ssl_mode, h2_addrs, h2_last_err, h2_lookups,
                   h2_tried, h2_elapsed, h2_stream>>
    /\ UNCHANGED <<localVars, remoteVars, connectVars, authVars, extraVars>>

\* the HTTP/2 handshake returned Ok: connect_http2 returns (client, connection)
h2_handshake_ok ==
    /\ h2_pc = "handshake"
    /\ H2Return(H2Ok)
    /\ UNCHANGED <<h2_host_addr, h2_ssl_mode, h2_addrs, h2_last_err, h2_lookups,
                   h2_tried, h2_elapsed, h2_stream>>
    /\ UNCHANGED <<localVars, remoteVars, connectVars, authVars, extraVars>>

\* the HTTP/2 handshake failed: `?` makes LocalProxyConnError::H2 of it
h2_handshake_err ==
    /\ h2_pc = "handshake"
    /\ H2Return(H2Err(H2Error))
    /\ UNCHANGED <<h2_host_addr, h2_ssl_mode, h2_addrs, h2_last_err, h2_lookups,
                   h2_tried, h2_elapsed, h2_stream>>
    /\ UNCHANGED <<localVars, remoteVars, connectVars, authVars, extraVars>>

NextHttp2 ==
    \/ \E a \in {0} \cup Addrs, m \in SslModes : hyper_connect_http2(a, m)
    \/ \E answer \in DnsAnswers : h2_lookup_host_ok(answer)
    \/ h2_lookup_host_err
    \/ h2_tick
    \/ \E n \in BOOLEAN : h2_tcp_connected(n)
    \/ h2_tcp_refused
    \/ h2_tcp_timeout
    \/ h2_tls_ok
    \/ h2_tls_err
    \/ h2_handshake_ok
    \/ h2_handshake_err

SpecHttp2 == Init /\ [][NextHttp2]_vars

(***************************************************************************)
(* Claims C23 .. C27: connect_http2.                                       *)
(***************************************************************************)
\* C23: with host_addr present lookup_host is never called and the candidates
\* are exactly that one address; lookup_host is called only with host_addr
\* absent, at most once, and its failure is returned as an Io error with no
\* connect attempt made.
C23_HostAddrSkipsDns ==
    /\ (h2_pc # "idle" /\ h2_host_addr # 0)
          => /\ h2_lookups = 0
             /\ h2_tried = <<h2_host_addr>>
             /\ h2_addrs = <<>>
    /\ h2_lookups <= 1
    /\ h2_lookups > 0 => h2_host_addr = 0
    /\ (h2_result.status = "err" /\ h2_result.err.msg = "lookup_host")
          => /\ h2_result.err.conn = "Io"
             /\ h2_tried = <<>>
             /\ h2_stream = NoStream
             /\ ~h2_client

\* a connect with host_addr succeeded
C23_Witness ==
    /\ h2_host_addr # 0
    /\ h2_result = H2Ok
    /\ h2_stream.addr = h2_host_addr

\* the errors of the loop over the candidate addresses
LoopErrors == {"ConnectionRefused", "TimedOut"}

\* C24: the candidate addresses are tried in the order of the list, one per
\* step; the loop ends at the first address whose connect succeeds, whatever
\* the addresses before it answered; with no address left the error returned
\* is the one of the last address tried; and a timeout is an Io error of kind
\* TimedOut.
C24_AddressesInOrder ==
    /\ [](h2_stream.addr # 0
            => /\ h2_stream.addr = h2_tried[Len(h2_tried)]
               /\ h2_pc \in {"tls", "handshake", "returned"})
    /\ []((h2_result.status = "err" /\ h2_result.err.io \in LoopErrors)
            => /\ h2_addrs = <<>>
               /\ h2_stream = NoStream
               /\ h2_result.err = h2_last_err
               /\ h2_result.err.conn = "Io"
               /\ h2_result.err.addr = h2_tried[Len(h2_tried)])
    /\ [][\A answer \in DnsAnswers :
            h2_lookup_host_ok(answer) => h2_tried' \o h2_addrs' = answer]_vars
    /\ [][h2_pc \notin {"idle", "lookup_host"}
            => /\ h2_tried' \o h2_addrs' = h2_tried \o h2_addrs
               /\ Len(h2_tried') <= Len(h2_tried) + 1
               /\ h2_stream.addr # 0 => h2_tried' = h2_tried]_vars
    /\ [][h2_tcp_timeout
            => h2_last_err' = IoError("TimedOut", h2_tried[Len(h2_tried)], "")]_vars

\* the first address refused, the second connected, and the connect returned Ok
C24_Witness ==
    /\ h2_result = H2Ok
    /\ h2_tried = <<1, 2>>
    /\ h2_last_err = IoError("ConnectionRefused", 1, "")
    /\ h2_stream.addr = 2

\* C25: when lookup_host answers with no address, no connect is attempted and
\* the result is the Io error of kind InvalidInput with the message
\* "could not resolve any addresses".
C25_NoAddressInvalidInput ==
    [][h2_lookup_host_ok(<<>>)
         => /\ h2_pc' = "returned"
            /\ h2_result' = H2Err(IoError("InvalidInput", 0,
                                           "could not resolve any addresses"))
            /\ h2_tried' = <<>>
            /\ h2_stream' = NoStream
            /\ ~h2_client'
      ]_vars

\* lookup_host answered with no address and the connect returned InvalidInput
C25_Witness ==
    /\ h2_lookups = 1
    /\ h2_tried = <<>>
    /\ h2_result.status = "err"
    /\ h2_result.err.io = "InvalidInput"

\* C26 as stated: with host_addr present and its connect refused, the error,
\* of kind Compute, is returned after one connect attempt and once `timeout`
\* has elapsed.
C26_RefusedAfterTimeout ==
    (h2_host_addr # 0 /\ h2_result.status = "err"
       /\ h2_result.err.io = "ConnectionRefused")
      => /\ get_error_kind(LocalProxyConnectionError(h2_result.err.conn)) = "Compute"
         /\ local_proxy_get_error_kind(h2_result.err.conn) = "Compute"
         /\ Len(h2_tried) = 1
         /\ h2_elapsed = Timeout

\* C26: with host_addr present and its connect refused, the error, of kind
\* Compute, is returned after one connect attempt and no later than `timeout`
\* after that attempt started.
C26_RefusedWithinTimeout ==
    (h2_host_addr # 0 /\ h2_result.status = "err"
       /\ h2_result.err.io = "ConnectionRefused")
      => /\ get_error_kind(LocalProxyConnectionError(h2_result.err.conn)) = "Compute"
         /\ local_proxy_get_error_kind(h2_result.err.conn) = "Compute"
         /\ Len(h2_tried) = 1
         /\ h2_tried = <<h2_host_addr>>
         /\ h2_elapsed <= Timeout

\* the connect to host_addr was refused before the timeout and the error is
\* returned
C26_Witness ==
    /\ h2_host_addr # 0
    /\ h2_result = H2Err(IoError("ConnectionRefused", h2_host_addr, ""))
    /\ h2_elapsed < Timeout

\* C27: the steps run in the order TCP connect, TLS, HTTP/2 handshake.  The
\* handshake runs only on a connected stream, wrapped in TLS iff ssl_mode is
\* not Disable; a client is handed to the pool only after a handshake that
\* succeeded; and a step that fails ends the connect with an error, with no
\* later step run and no client.
C27_HandshakeOrder ==
    /\ [](h2_pc = "tls"
            => h2_stream.addr # 0 /\ ~h2_stream.tls /\ h2_ssl_mode # "Disable")
    /\ [](h2_pc = "handshake"
            => h2_stream.addr # 0 /\ (h2_stream.tls <=> h2_ssl_mode # "Disable"))
    /\ [](h2_client
            => /\ h2_result = H2Ok
               /\ h2_stream.addr # 0
               /\ h2_stream.tls <=> h2_ssl_mode # "Disable")
    /\ [](h2_result.status = "err" => h2_pc = "returned" /\ ~h2_client)
    /\ [][h2_pc' = "handshake" => h2_pc \in {"tcp", "tls", "handshake"}]_vars
    /\ [][h2_result'.status = "ok" => h2_pc \in {"handshake", "returned"}]_vars
    /\ [][(h2_pc # "returned" /\ h2_result'.status = "err")
            => /\ h2_pc' = "returned"
               /\ h2_stream' = h2_stream
               /\ ~h2_client']_vars

\* with ssl_mode Prefer the handshake ran over TLS and the client is pooled
C27_Witness ==
    /\ h2_client
    /\ h2_ssl_mode = "Prefer"
    /\ h2_stream.tls

(***************************************************************************)
(* PoolingBackend::authenticate_with_password.  get_role_secret answers    *)
(* with what the control plane stores for the role at that moment: any     *)
(* secret, or none.  au_secret keeps the answer after the call returned.   *)
(***************************************************************************)
\* the call returns res: its arguments are dropped
AuReturn(t, res) ==
    /\ au_pc' = [au_pc EXCEPT ![t] = "idle"]
    /\ au_result' = [au_result EXCEPT ![t] = res]
    /\ au_user' = [au_user EXCEPT ![t] = 1]
    /\ au_endpoint' = [au_endpoint EXCEPT ![t] = 1]
    /\ au_password' = [au_password EXCEPT ![t] = 1]

\* the call goes on to its next await
AuGoOn(t, pc) ==
    /\ au_pc' = [au_pc EXCEPT ![t] = pc]
    /\ UNCHANGED <<au_result, au_user, au_endpoint, au_password>>

\* entry: set_auth_method, then get_endpoint_access_control is awaited
authenticate_with_password(t, user, ep, password) ==
    /\ au_pc[t] = "idle"
    /\ au_user' = [au_user EXCEPT ![t] = user]
    /\ au_endpoint' = [au_endpoint EXCEPT ![t] = ep]
    /\ au_password' = [au_password EXCEPT ![t] = password]
    /\ au_secret' = [au_secret EXCEPT ![t] = NotFetched]
    /\ au_result' = [au_result EXCEPT ![t] = AuNoResult]
    /\ au_pc' = [au_pc EXCEPT ![t] = "access_control"]
    /\ UNCHANGED rate_tokens
    /\ UNCHANGED <<localVars, remoteVars, connectVars, http2Vars, extraVars>>

\* get_endpoint_access_control failed: `?`
au_access_control_err(t) ==
    /\ au_pc[t] = "access_control"
    /\ AuReturn(t, AuErr("GetAuthInfo"))
    /\ UNCHANGED <<au_secret, rate_tokens>>
    /\ UNCHANGED <<localVars, remoteVars, connectVars, http2Vars, extraVars>>

\* mutant: the rate limit is applied before access_control.check
au_access_control_ok_limit_first(t, allowed) ==
    /\ au_pc[t] = "access_control"
    /\ LET ep == au_endpoint[t]
       IN  IF rate_tokens[ep] = 0
           THEN /\ AuReturn(t, AuErr("TooManyConnections"))
                /\ UNCHANGED rate_tokens
           ELSE /\ rate_tokens' = [rate_tokens EXCEPT ![ep] = @ - 1]
                /\ IF allowed
                   THEN AuGoOn(t, "role_secret")
                   ELSE AuReturn(t, AuErr("access"))
    /\ UNCHANGED au_secret
    /\ UNCHANGED <<localVars, remoteVars, connectVars, http2Vars, extraVars>>

\* get_endpoint_access_control answered: access_control.check, then
\* connection_attempt_rate_limit, then get_role_secret is awaited
au_access_control_ok(t, allowed) ==
    /\ au_pc[t] = "access_control"
    /\ LET ep == au_endpoint[t]
       IN  IF ~allowed
           THEN /\ AuReturn(t, AuErr("access"))
                /\ UNCHANGED rate_tokens
           ELSE IF rate_tokens[ep] = 0
           THEN /\ AuReturn(t, AuErr("TooManyConnections"))
                /\ UNCHANGED rate_tokens
           ELSE /\ rate_tokens' = [rate_tokens EXCEPT ![ep] = @ - 1]
                /\ AuGoOn(t, "role_secret")
    /\ UNCHANGED au_secret
    /\ UNCHANGED <<localVars, remoteVars, connectVars, http2Vars, extraVars>>

\* get_role_secret failed: `?`
au_role_secret_err(t) ==
    /\ au_pc[t] = "role_secret"
    /\ AuReturn(t, AuErr("GetAuthInfo"))
    /\ UNCHANGED <<au_secret, rate_tokens>>
    /\ UNCHANGED <<localVars, remoteVars, connectVars, http2Vars, extraVars>>

\* mutant: a missing secret is reported as an error of its own
au_role_secret_ok_role_not_found(t, secret) ==
    /\ au_pc[t] = "role_secret"
    /\ au_secret' = [au_secret EXCEPT ![t] = secret]
    /\ IF secret = NoSecret
       THEN AuReturn(t, AuErr("role_not_found"))
       ELSE AuGoOn(t, "scram")
    /\ UNCHANGED rate_tokens
    /\ UNCHANGED <<localVars, remoteVars, connectVars, http2Vars, extraVars>>

\* get_role_secret answered with the secret the control plane stores for the
\* role: without a secret password_failed is returned, with one
\* validate_password_and_exchange is awaited
au_role_secret_ok(t, secret) ==
    /\ au_pc[t] = "role_secret"
    /\ au_secret' = [au_secret EXCEPT ![t] = secret]
    /\ IF secret = NoSecret
       THEN AuReturn(t, password_failed(au_user[t]))
       ELSE AuGoOn(t, "scram")
    /\ UNCHANGED rate_tokens
    /\ UNCHANGED <<localVars, remoteVars, connectVars, http2Vars, extraVars>>

\* validate_password_and_exchange failed: `?`
au_exchange_err(t) ==
    /\ au_pc[t] = "scram"
    /\ AuReturn(t, AuErr("exchange"))
    /\ UNCHANGED <<au_secret, rate_tokens>>
    /\ UNCHANGED <<localVars, remoteVars, connectVars, http2Vars, extraVars>>

\* mutant: the credentials carry the info of no user
au_exchange_outcome_info_lost(t) ==
    /\ au_pc[t] = "scram"
    /\ IF au_password[t] = au_secret[t]
       THEN AuReturn(t, AuOk(NoUserInfo, au_password[t]))
       ELSE AuReturn(t, password_failed(au_user[t]))
    /\ UNCHANGED <<au_secret, rate_tokens>>
    /\ UNCHANGED <<localVars, remoteVars, connectVars, http2Vars, extraVars>>

\* validate_password_and_exchange answered: Success(key) gives the
\* credentials, Failure gives password_failed
au_exchange_outcome(t) ==
    /\ au_pc[t] = "scram"
    /\ IF au_password[t] = au_secret[t]
       THEN AuReturn(t, AuOk(UserInfo(au_user[t], au_endpoint[t]), au_password[t]))
       ELSE AuReturn(t, password_failed(au_user[t]))
    /\ UNCHANGED <<au_secret, rate_tokens>>
    /\ UNCHANGED <<localVars, remoteVars, connectVars, http2Vars, extraVars>>

\* time passes: the rate limiter of the endpoint allows one more attempt
rate_refill(ep) ==
    /\ rate_tokens[ep] < RateBurst
    /\ rate_tokens' = [rate_tokens EXCEPT ![ep] = @ + 1]
    /\ UNCHANGED <<au_pc, au_user, au_endpoint, au_password, au_secret, au_result>>
    /\ UNCHANGED <<localVars, remoteVars, connectVars, http2Vars, extraVars>>

NextAuth ==
    \/ \E t \in AuthTasks, u \in Users, ep \in Endpoints, p \in Passwords :
          authenticate_with_password(t, u, ep, p)
    \/ \E t \in AuthTasks : au_access_control_err(t)
    \/ \E t \in AuthTasks, a \in BOOLEAN : au_access_control_ok(t, a)
    \/ \E t \in AuthTasks : au_role_secret_err(t)
    \/ \E t \in AuthTasks, s \in {NoSecret} \cup Passwords : au_role_secret_ok(t, s)
    \/ \E t \in AuthTasks : au_exchange_err(t)
    \/ \E t \in AuthTasks : au_exchange_outcome(t)
    \/ \E ep \in Endpoints : rate_refill(ep)

SpecAuth == Init /\ [][NextAuth]_vars

(***************************************************************************)
(* Claims about authenticate_with_password, checked under SpecAuth.        *)
(***************************************************************************)
\* the call of task t has returned
AuReturned(t) == au_pc[t] = "idle" /\ au_result[t].status # "none"

\* C28: password authentication never discloses whether the role exists.  A
\* call whose role has no stored secret and a call whose secret exists but
\* does not match the password both return password_failed(user), a value
\* made of the user alone; and whenever get_role_secret has answered, a
\* failure other than an error of the exchange itself is that value, whatever
\* the answer was.
C28_RoleExistenceNotDisclosed ==
    /\ [][\A t \in AuthTasks :
            au_role_secret_ok(t, NoSecret)
            => au_result'[t] = password_failed(au_user[t])]_vars
    /\ [][\A t \in AuthTasks :
            (au_exchange_outcome(t) /\ au_password[t] # au_secret[t])
            => au_result'[t] = password_failed(au_user[t])]_vars
    /\ [](\A t \in AuthTasks :
            (/\ AuReturned(t)
             /\ au_result[t].status = "err"
             /\ au_secret[t] # NotFetched
             /\ au_result[t].err # "exchange")
            => /\ au_result[t].user \in Users
               /\ au_result[t] = password_failed(au_result[t].user))

\* two authentications of one user have failed with the same error, one
\* without a stored secret and one with a secret that did not match
C28_Witness ==
    \E t1, t2 \in AuthTasks, u \in Users :
        /\ AuReturned(t1) /\ AuReturned(t2)
        /\ au_result[t1] = password_failed(u)
        /\ au_result[t2] = password_failed(u)
        /\ au_secret[t1] = NoSecret
        /\ au_secret[t2] \in Passwords

\* C29: the password path runs access-control check, rate limit, role-secret
\* fetch, SCRAM exchange in this order.  get_role_secret is awaited only by
\* the step that passed the access check and took an attempt from the rate
\* limit of the endpoint; the exchange is awaited only after get_role_secret
\* answered with a secret; a failed access check leaves the rate limit
\* alone; a call rejected by the rate limit returns TooManyConnections from
\* the access-control step, with no secret fetched and no exchange run.
C29_StepOrder ==
    /\ [][\A t \in AuthTasks :
            (au_pc'[t] = "role_secret" /\ au_pc[t] # "role_secret")
            => /\ au_pc[t] = "access_control"
               /\ rate_tokens[au_endpoint[t]] > 0
               /\ rate_tokens'[au_endpoint[t]] = rate_tokens[au_endpoint[t]] - 1]_vars
    /\ [][\A t \in AuthTasks :
            (au_pc'[t] = "scram" /\ au_pc[t] # "scram")
            => /\ au_pc[t] = "role_secret"
               /\ au_secret[t] = NotFetched
               /\ au_secret'[t] \in Passwords]_vars
    /\ [][\A t \in AuthTasks :
            au_access_control_ok(t, FALSE)
            => /\ au_result'[t] = AuErr("access")
               /\ rate_tokens' = rate_tokens]_vars
    /\ [][\A t \in AuthTasks :
            (au_pc[t] # "idle" /\ au_result'[t] = AuErr("TooManyConnections"))
            => /\ au_pc[t] = "access_control"
               /\ au_pc'[t] = "idle"
               /\ rate_tokens[au_endpoint[t]] = 0
               /\ rate_tokens' = rate_tokens
               /\ au_secret'[t] = NotFetched]_vars
    /\ [](\A t \in AuthTasks :
            \/ au_pc[t] = "access_control"
            \/ au_result[t].err \in {"access", "TooManyConnections"}
            => au_secret[t] = NotFetched)

\* one authentication ran through all four steps and took the only attempt
\* the endpoint had; the other passed the access check and was rejected by
\* the rate limit
C29_Witness ==
    \E t1, t2 \in AuthTasks :
        /\ AuReturned(t1) /\ AuReturned(t2)
        /\ au_result[t1].status = "ok"
        /\ au_result[t2] = AuErr("TooManyConnections")
        /\ au_secret[t2] = NotFetched
        /\ rate_tokens[au_result[t1].info.endpoint] = 0

\* the call of t2 returns in this step, it presents the credentials the
\* authentication of t1 succeeded with, the control plane did not answer it
\* with another secret, and neither the control plane, the access check nor
\* the exchange failed
SameValidCredentialsReturn(t1, t2) ==
    /\ t1 # t2
    /\ AuReturned(t1)
    /\ au_pc[t2] # "idle"
    /\ au_pc'[t2] = "idle"
    /\ au_result[t1] = AuOk(UserInfo(au_user[t2], au_endpoint[t2]), au_password[t2])
    /\ au_secret'[t2] \in {NotFetched, au_password[t2]}
    /\ au_result'[t2].err \notin {"GetAuthInfo", "access", "exchange"}

HeldKeys ==
    ({jk_key_jwk[t].key : t \in Tasks}
       \cup {jk_clients[id].key : id \in DOMAIN jk_clients}) \ {NoKey}

\* the handle of task t drops: the client goes to the pool, or is closed
JkDropHandle(t, close) ==
    /\ jk_clients' = [jk_clients EXCEPT ![jk_handle[t]] =
                         IF close THEN ClosedLocalClient
                         ELSE [@ EXCEPT !.at = "idle"]]
    /\ jk_handle' = [jk_handle EXCEPT ![t] = 0]

\* local_pool.get found an idle client of the ConnInfo: its handle is returned
jk_pool_hit(t, id) ==
    /\ jk_pc[t] = "idle"
    /\ id \in DOMAIN jk_clients
    /\ jk_clients[id].at = "idle"
    /\ jk_clients' = [jk_clients EXCEPT ![id].at = "owned"]
    /\ jk_handle' = [jk_handle EXCEPT ![t] = id]
    /\ jk_pc' = [jk_pc EXCEPT ![t] = "done"]
    /\ UNCHANGED jk_key_jwk
    /\ UNCHANGED <<backendVars, cacheOptionsVars, pgVersionVars, entryVars, tenantVars>>

\* local_pool.get found none: conn_id, create_random_jwk, the client config
\* with the JWK in its options, and the start of config.connect
jk_open(t) ==
    /\ jk_pc[t] = "idle"
    /\ Len(jk_clients) < MaxCalls
    /\ jk_key_jwk' = [jk_key_jwk EXCEPT ![t] = create_random_jwk(HeldKeys)]
    /\ jk_pc' = [jk_pc EXCEPT ![t] = "connect"]
    /\ UNCHANGED <<jk_handle, jk_clients>>
    /\ UNCHANGED <<backendVars, cacheOptionsVars, pgVersionVars, entryVars, tenantVars>>

\* mutant: poll_client gets a copy of the key, the call keeps its own
jk_connect_ok_key_kept(t) ==
    /\ jk_pc[t] = "connect"
    /\ Len(jk_clients) < MaxCalls
    /\ jk_clients' = Append(jk_clients,
                            LocalClient(jk_key_jwk[t].key, jk_key_jwk[t].jwk))
    /\ jk_handle' = [jk_handle EXCEPT ![t] = Len(jk_clients) + 1]
    /\ jk_pc' = [jk_pc EXCEPT ![t] = "auth_init"]
    /\ UNCHANGED jk_key_jwk
    /\ UNCHANGED <<backendVars, cacheOptionsVars, pgVersionVars, entryVars, tenantVars>>

\* config.connect returned Ok: `key` is moved into local_conn_pool::poll_client,
\* which makes the handle, and `select auth.init();` is sent
jk_connect_ok(t) ==
    /\ jk_pc[t] = "connect"
    /\ Len(jk_clients) < MaxCalls
    /\ jk_clients' = Append(jk_clients,
                            LocalClient(jk_key_jwk[t].key, jk_key_jwk[t].jwk))
    /\ jk_handle' = [jk_handle EXCEPT ![t] = Len(jk_clients) + 1]
    /\ jk_key_jwk' = [jk_key_jwk EXCEPT ![t] = NoKeyJwk]
    /\ jk_pc' = [jk_pc EXCEPT ![t] = "auth_init"]
    /\ UNCHANGED <<backendVars, cacheOptionsVars, pgVersionVars, entryVars, tenantVars>>

\* config.connect returned Err, or the request is cancelled during the
\* connect: the call ends and drops key and jwk
jk_connect_err(t) ==
    /\ jk_pc[t] = "connect"
    /\ jk_key_jwk' = [jk_key_jwk EXCEPT ![t] = NoKeyJwk]
    /\ jk_pc' = [jk_pc EXCEPT ![t] = "idle"]
    /\ UNCHANGED <<jk_handle, jk_clients>>
    /\ UNCHANGED <<backendVars, cacheOptionsVars, pgVersionVars, entryVars, tenantVars>>

\* batch_execute("select auth.init();") returned Ok: Ok(handle)
jk_auth_init_ok(t) ==
    /\ jk_pc[t] = "auth_init"
    /\ jk_pc' = [jk_pc EXCEPT ![t] = "done"]
    /\ jk_clients' = [jk_clients EXCEPT ![jk_handle[t]].ready = TRUE]
    /\ UNCHANGED <<jk_key_jwk, jk_handle>>
    /\ UNCHANGED <<backendVars, cacheOptionsVars, pgVersionVars, entryVars, tenantVars>>

\* batch_execute returned Err: discard.discard(), the handle drops and the
\* client is closed
jk_auth_init_err(t) ==
    /\ jk_pc[t] = "auth_init"
    /\ JkDropHandle(t, TRUE)
    /\ jk_pc' = [jk_pc EXCEPT ![t] = "idle"]
    /\ UNCHANGED jk_key_jwk
    /\ UNCHANGED <<backendVars, cacheOptionsVars, pgVersionVars, entryVars, tenantVars>>

\* the request is cancelled during auth.init: the handle drops undiscarded
jk_cancel(t) ==
    /\ jk_pc[t] = "auth_init"
    /\ JkDropHandle(t, FALSE)
    /\ jk_pc' = [jk_pc EXCEPT ![t] = "idle"]
    /\ UNCHANGED jk_key_jwk
    /\ UNCHANGED <<backendVars, cacheOptionsVars, pgVersionVars, entryVars, tenantVars>>

\* the requester is done with the client and drops the handle
jk_requester_drop(t, close) ==
    /\ jk_pc[t] = "done"
    /\ JkDropHandle(t, close)
    /\ jk_pc' = [jk_pc EXCEPT ![t] = "idle"]
    /\ UNCHANGED jk_key_jwk
    /\ UNCHANGED <<backendVars, cacheOptionsVars, pgVersionVars, entryVars, tenantVars>>

\* the pool closes an idle client: idle_ttl, eviction
jk_close_idle(id) ==
    /\ id \in DOMAIN jk_clients
    /\ jk_clients[id].at = "idle"
    /\ jk_clients' = [jk_clients EXCEPT ![id] = ClosedLocalClient]
    /\ UNCHANGED <<jk_pc, jk_key_jwk, jk_handle>>
    /\ UNCHANGED <<backendVars, cacheOptionsVars, pgVersionVars, entryVars, tenantVars>>

NextKey ==
    \/ \E t \in Tasks, id \in ClientIds : jk_pool_hit(t, id)
    \/ \E t \in Tasks : jk_open(t)
    \/ \E t \in Tasks : jk_connect_ok(t)
    \/ \E t \in Tasks : jk_connect_err(t)
    \/ \E t \in Tasks : jk_auth_init_ok(t)
    \/ \E t \in Tasks : jk_auth_init_err(t)
    \/ \E t \in Tasks : jk_cancel(t)
    \/ \E t \in Tasks, close \in BOOLEAN : jk_requester_drop(t, close)
    \/ \E id \in ClientIds : jk_close_idle(id)

SpecKey == Init /\ [][NextKey]_vars

\* the local clients that are not closed
LiveLocalClients == {id \in DOMAIN jk_clients : jk_clients[id].at # "closed"}

\* C31: every new local Postgres connection gets its own freshly generated
\* signing key.  A key a call has generated is held by that call alone, only
\* while its connect is in progress, and by no client; once the connection
\* exists the key is held by its client alone, which one handle at most owns;
\* no two live local clients share a key; and the JWK put into the startup
\* options, and kept by the session, is the public half of the connection's
\* key with d absent.
C31_OwnSigningKey ==
    /\ \A t \in Tasks :
          LET kj == jk_key_jwk[t]
          IN  /\ kj.jwk.d = NoKey
              /\ kj.key # NoKey
                 => /\ jk_pc[t] = "connect"
                    /\ kj.jwk = Okp(verifying_key(kj.key), NoKey)
                    /\ \A u \in Tasks \ {t} : jk_key_jwk[u].key # kj.key
                    /\ \A id \in LiveLocalClients : jk_clients[id].key # kj.key
    /\ \A id \in LiveLocalClients :
          LET cl == jk_clients[id]
          IN  /\ cl.key # NoKey
              /\ cl.jwk = Okp(verifying_key(cl.key), NoKey)
              /\ \A other \in LiveLocalClients \ {id} :
                    jk_clients[other].key # cl.key
              /\ Cardinality({t \in Tasks : jk_handle[t] = id}) =
                    IF cl.at = "owned" THEN 1 ELSE 0

\* two local connections are live, each with a key of its own, one of them
\* taken from the pool by a later call
C31_Witness ==
    \E id1, id2 \in LiveLocalClients, t \in Tasks :
        /\ id1 # id2
        /\ jk_clients[id1].key # NoKey
        /\ jk_clients[id2].key # jk_clients[id1].key
        /\ jk_handle[t] = id1
        /\ jk_pc[t] = "done"

(***************************************************************************)
(* parse_cache_options: SpecCacheOptions writes an option string piece by  *)
(* piece and parses it.                                                    *)
(***************************************************************************)
\* the command line gets one more piece
pa_type(piece) ==
    /\ pa_result = PaNoResult
    /\ Len(pa_options) < MaxOptionsLen
    /\ pa_options' = Append(pa_options, piece)
    /\ UNCHANGED pa_result
    /\ UNCHANGED <<backendVars, keyVars, pgVersionVars, entryVars, tenantVars>>

\* parse_cache_options(options)
pa_parse(lenient) ==
    /\ pa_result = PaNoResult
    /\ pa_result' = parse_cache_options(pa_options, lenient)
    /\ UNCHANGED pa_options
    /\ UNCHANGED <<backendVars, keyVars, pgVersionVars, entryVars, tenantVars>>

NextCacheOptions ==
    \/ \E piece \in Pieces : pa_type(piece)
    \/ \E lenient \in BOOLEAN : pa_parse(lenient)

SpecCacheOptions == Init /\ [][NextCacheOptions]_vars

\* the ways to read str as size=<n>,ttl=<duration>: the places of the comma
\* with digits between `size=` and it and `ttl=` behind it
FormSplits(str) ==
    {i \in 3 .. Len(str) - 2 :
        /\ str[1] = "size="
        /\ \A j \in 2 .. i - 1 : str[j] \in Digits
        /\ str[i] = ","
        /\ str[i + 1] = "ttl="}

\* the values humantime may give the text behind `ttl=`
FormDurations(str, i) ==
    {parse_duration(SubSeq(str, i + 2, Len(str)), lenient) : lenient \in BOOLEAN}

\* C32: parse_cache_options accepts exactly the literal "size=0", giving
\* size 0 and zero ttl, and the form "size=<n>,ttl=<duration>", giving the
\* number n, also when it is 0, and the duration; every other input is an
\* error.
C32_CacheOptionsAccepted ==
    pa_result # PaNoResult
    => LET str == pa_options
           splits == FormSplits(str)
       IN  /\ str = <<"size=", "0">> => pa_result = PaOk(0, 0)
           /\ \A i \in splits :
                 \E d \in FormDurations(str, i) :
                     pa_result = IF d.some
                                 THEN PaOk(Number(SubSeq(str, 2, i - 1)), d.val)
                                 ELSE PaErr("humantime::DurationError")
           /\ (str # <<"size=", "0">> /\ splits = {}) => pa_result.status = "err"
           /\ pa_result.status \in {"ok", "err"}

\* size=0,ttl=5s was parsed to size 0 and five seconds
C32_Witness ==
    /\ pa_options = <<"size=", "0", ",", "ttl=", "5", "s">>
    /\ pa_result = PaOk(0, 5)

(***************************************************************************)
(* parse_pg_version: SpecPgVersion writes a version string piece by piece  *)
(* and parses it.                                                          *)
(***************************************************************************)
\* pg_config --version prints one more piece
pv_print(piece) ==
    /\ pv_result = "none"
    /\ Len(pv_human_version) < MaxVersionLen
    /\ pv_human_version' = Append(pv_human_version, piece)
    /\ UNCHANGED pv_result
    /\ UNCHANGED <<backendVars, keyVars, cacheOptionsVars, entryVars, tenantVars>>

\* parse_pg_version(&human_version)
pv_parse ==
    /\ pv_result = "none"
    /\ pv_result' = parse_pg_version(pv_human_version)
    /\ UNCHANGED pv_human_version
    /\ UNCHANGED <<backendVars, keyVars, cacheOptionsVars, entryVars, tenantVars>>

NextPgVersion ==
    \/ \E piece \in VersionPieces : pv_print(piece)
    \/ pv_parse

SpecPgVersion == Init /\ [][NextPgVersion]_vars

\* the major number of a version string: the digits that follow `PostgreSQL `
MajorNumber(str) ==
    LET stops == {i \in 2 .. Len(str) : str[i] \notin VersionDigits}
        stop == IF stops = {} THEN Len(str) + 1
                ELSE CHOOSE i \in stops : \A j \in stops : i <= j
    IN  IF str # <<>> /\ str[1] = "PostgreSQL " THEN SubSeq(str, 2, stop - 1)
        ELSE <<>>

\* what follows the major number
MajorRest(str) == SubSeq(str, Len(MajorNumber(str)) + 2, Len(str))

SupportedMajors ==
    {<<"1", "4">>, <<"1", "5">>, <<"1", "6">>, <<"1", "7">>}

\* C33: parse_pg_version maps "PostgreSQL <major><rest>" with major in
\* {14, 15, 16, 17} and a non-empty rest to the version of that major; it
\* panics on every other major and on a string with nothing after the major
\* number.
C33_PgVersionOfMajor ==
    pv_result # "none"
    => LET major == MajorNumber(pv_human_version)
           rest == MajorRest(pv_human_version)
       IN  IF major \in SupportedMajors /\ rest # <<>>
           THEN pv_result = "PG" \o major[1] \o major[2]
           ELSE pv_result = "panic"

\* C36: a call of connect_to_compute with force_new = true does not consult
\* the remote pool: whatever the pool holds and whether or not its lookup
\* would fail, the call goes on to wake_compute and connect_once with no
\* client in hand, nothing is returned by the entry, and the idle lists and
\* the clients stay as they were.
C36_ForceNewSkipsPool ==
    [][\A t \in Tasks, c \in ConnInfos, get_fails \in BOOLEAN :
          connect_to_compute(t, c, TRUE, get_fails) =>
              /\ cc_pc'[t] = "wake"
              /\ cc_force_new'[t]
              /\ cc_conn_info'[t] = c
              /\ cc_handle'[t] = 0
              /\ pool' = pool
              /\ clients' = clients
              /\ cc_result' = cc_result
      ]_vars

\* a call with force_new is on its way to wake_compute while the pool holds
\* a reusable idle client of its ConnInfo
C36_Witness ==
    \E t \in Tasks :
        /\ cc_pc[t] = "wake"
        /\ cc_force_new[t]
        /\ cc_handle[t] = 0
        /\ Reusable(cc_conn_info[t]) # {}

(***************************************************************************)
(* The pool lookup at the entry of connect_to_compute,                     *)
(* connect_to_local_proxy and connect_to_local_postgres.  SpecEntry        *)
(* follows a call from the lookup to the first outcome of what it opens.   *)
(***************************************************************************)
EntryPoints ==
    {"connect_to_compute", "connect_to_local_proxy", "connect_to_local_postgres"}

\* pool.get: Ok(Some(client)), Ok(None), Err(e)
GetResults == {"Some", "None", "Err"}

\* mutant: connect_to_local_proxy returns the error of the lookup
AfterGet_proxy_returns_error(fn, get) ==
    CASE get = "Some" -> "return client"
      [] get = "Err" -> "return error"
      [] OTHER -> "open"

\* what the entry point does with the lookup: connect_to_compute and
\* connect_to_local_postgres apply `?` to it, connect_to_local_proxy takes
\* Ok(Some(client)) and lets everything else pass
AfterGet(fn, get) ==
    CASE get = "Some" -> "return client"
      [] get = "Err" /\ fn # "connect_to_local_proxy" -> "return error"
      [] OTHER -> "open"

\* the call returns
EnReturn(t, res) ==
    /\ en_pc' = [en_pc EXCEPT ![t] = "idle"]
    /\ en_result' = [en_result EXCEPT ![t] = res]

\* entry of fn: the lookup unless force_new disables the pool, and what
\* follows it.  A new connection is opened through the driver, which wakes
\* the compute first, or for local postgres by config.connect.
en_call(t, fn, force_new, get) ==
    /\ en_pc[t] = "idle"
    /\ force_new => fn = "connect_to_compute" /\ get = "None"
    /\ en_fn' = [en_fn EXCEPT ![t] = fn]
    /\ en_get' = [en_get EXCEPT ![t] = IF force_new THEN "unasked" ELSE get]
    /\ en_wakes' = [en_wakes EXCEPT ![t] = 0]
    /\ en_connects' = [en_connects EXCEPT ![t] = 0]
    /\ LET next == IF force_new THEN "open" ELSE AfterGet(fn, get)
       IN  CASE next = "return client" -> EnReturn(t, Ok)
             [] next = "return error" -> EnReturn(t, Err(PoolError))
             [] OTHER ->
                  /\ en_pc' = [en_pc EXCEPT ![t] =
                                 IF fn = "connect_to_local_postgres"
                                 THEN "connect" ELSE "wake"]
                  /\ en_result' = [en_result EXCEPT ![t] = NoResult]
    /\ UNCHANGED <<backendVars, keyVars, cacheOptionsVars, pgVersionVars, tenantVars>>

\* wake_compute answered: connect_once starts
en_wake_ok(t) ==
    /\ en_pc[t] = "wake"
    /\ en_wakes' = [en_wakes EXCEPT ![t] = @ + 1]
    /\ en_pc' = [en_pc EXCEPT ![t] = "connect"]
    /\ UNCHANGED <<en_fn, en_get, en_result, en_connects>>
    /\ UNCHANGED <<backendVars, keyVars, cacheOptionsVars, pgVersionVars, tenantVars>>

\* wake_compute failed
en_wake_err(t) ==
    /\ en_pc[t] = "wake"
    /\ en_wakes' = [en_wakes EXCEPT ![t] = @ + 1]
    /\ EnReturn(t, Err(WakeCompute))
    /\ UNCHANGED <<en_fn, en_get, en_connects>>
    /\ UNCHANGED <<backendVars, keyVars, cacheOptionsVars, pgVersionVars, tenantVars>>

\* the connect succeeded: the new client is returned
en_connect_ok(t) ==
    /\ en_pc[t] = "connect"
    /\ en_connects' = [en_connects EXCEPT ![t] = @ + 1]
    /\ EnReturn(t, Ok)
    /\ UNCHANGED <<en_fn, en_get, en_wakes>>
    /\ UNCHANGED <<backendVars, keyVars, cacheOptionsVars, pgVersionVars, tenantVars>>

\* the connect failed with an error of the mechanism
en_connect_err(t, e) ==
    /\ en_pc[t] = "connect"
    /\ e \in ConnectErrors(IF en_fn[t] = "connect_to_local_proxy"
                           THEN "Hyper" ELSE "Tokio")
    /\ en_connects' = [en_connects EXCEPT ![t] = @ + 1]
    /\ EnReturn(t, Err(e))
    /\ UNCHANGED <<en_fn, en_get, en_wakes>>
    /\ UNCHANGED <<backendVars, keyVars, cacheOptionsVars, pgVersionVars, tenantVars>>

NextEntry ==
    \/ \E t \in Tasks, fn \in EntryPoints, f \in BOOLEAN, g \in GetResults :
          en_call(t, fn, f, g)
    \/ \E t \in Tasks : en_wake_ok(t)
    \/ \E t \in Tasks : en_wake_err(t)
    \/ \E t \in Tasks : en_connect_ok(t)
    \/ \E t \in Tasks, e \in ConnectErrors("Tokio") \cup ConnectErrors("Hyper") :
          en_connect_err(t, e)

SpecEntry == Init /\ [][NextEntry]_vars

\* C35: connect_to_local_proxy never returns an error that comes from the
\* pool lookup: when the lookup fails the call goes on to wake and connect
\* exactly as on a miss; connect_to_compute and connect_to_local_postgres
\* return the error of the lookup at once, without a wake or a connect.
C35_LookupError ==
    \A t \in Tasks :
        /\ en_fn[t] = "connect_to_local_proxy"
           => /\ en_result[t] # Err(PoolError)
              /\ en_get[t] \in {"None", "Err"}
                 => \/ en_pc[t] = "wake" /\ en_wakes[t] = 0
                    \/ en_pc[t] = "connect" /\ en_wakes[t] = 1
                    \/ en_pc[t] = "idle" /\ en_wakes[t] = 1
        /\ (en_fn[t] \in {"connect_to_compute", "connect_to_local_postgres"}
              /\ en_get[t] = "Err")
           => /\ en_pc[t] = "idle"
              /\ en_result[t] = Err(PoolError)
              /\ en_wakes[t] = 0
              /\ en_connects[t] = 0

\* after a failed lookup connect_to_local_proxy has returned a new client,
\* and connect_to_compute has returned the error of its lookup
C35_Witness ==
    \E t1, t2 \in Tasks :
        /\ en_fn[t1] = "connect_to_local_proxy"
        /\ en_get[t1] = "Err"
        /\ en_result[t1] = Ok
        /\ en_connects[t1] = 1
        /\ en_fn[t2] = "connect_to_compute"
        /\ en_get[t2] = "Err"
        /\ en_result[t2] = Err(PoolError)

(***************************************************************************)
(* Claims about the classification of the error connect_once returns,     *)
(* checked under SpecConnect.                                              *)
(***************************************************************************)
\* C34: the retry classification of an HttpConnError agrees with that of the
\* error it wraps: for PostgresConnectionError and LocalProxyConnectionError
\* both could_retry and should_retry_wake_compute of the outer error equal
\* those of the inner error, so a local-proxy Io or H2 error never asks for a
\* wake retry.
C34_ClassificationOfWrapped ==
    (/\ co_result.status = "err"
     /\ co_result.err.variant \in
           {"PostgresConnectionError", "LocalProxyConnectionError"})
    => /\ could_retry(co_result.err) = co_result.err.retry
       /\ should_retry_wake_compute(co_result.err) = co_result.err.wake

(***************************************************************************)
(* The tenant manager: the TENANTS map behind its RwLock, the mgmt API     *)
(* commands create, attach and detach, the background load of a tenant,    *)
(* and shutdown_all_tenants.  The map is kept as the entries under each    *)
(* tenant id, so that one entry per id is something to be checked.         *)
(***************************************************************************)
\* the write lock is free: shutdown_all_tenants holds it while it marks
WriteLockFree == sd_pc # "marking"

\* startup: a Repository in state Loading for every tenant found on disk
init_tenant_mgr(on_disk) ==
    /\ ~tm_started
    /\ tm_started' = TRUE
    /\ tenants' = [id \in TenantIds |->
                      IF id \in on_disk THEN <<"Loading">> ELSE <<>>]
    /\ UNCHANGED tm_result
    /\ UNCHANGED <<sd_pc, sd_todo, sd_tenant_ids, sd_i, sd_outcome>>
    /\ UNCHANGED <<backendVars, keyVars, cacheOptionsVars, pgVersionVars, entryVars>>

\* what create_tenant returns: Ok(None) for an occupied entry, else what
\* Repository::create allows
create_tenant_returns(m, tenant_id, created) ==
    IF Occupied(m, tenant_id) THEN TenantOk("None")
    ELSE IF created THEN TenantOk("Some(tenant_id)")
    ELSE TenantErr("create failed")

\* create_tenant: a created Repository is inserted into the vacant entry
create_tenant(tenant_id, created) ==
    /\ tm_started
    /\ WriteLockFree
    /\ tm_result' = create_tenant_returns(tenants, tenant_id, created)
    /\ tenants' = IF tm_result' = TenantOk("Some(tenant_id)")
                  THEN [tenants EXCEPT ![tenant_id] = Append(@, "Active")]
                  ELSE tenants
    /\ UNCHANGED tm_started
    /\ UNCHANGED <<sd_pc, sd_todo, sd_tenant_ids, sd_i, sd_outcome>>
    /\ UNCHANGED <<backendVars, keyVars, cacheOptionsVars, pgVersionVars, entryVars>>

\* mutant: a Broken tenant may be attached again
attach_tenant_returns_broken_vacant(m, tenant_id, spawned) ==
    IF Occupied(m, tenant_id) /\ get_state(m, tenant_id) # "Broken"
    THEN TenantErr(AttachError(get_state(m, tenant_id)))
    ELSE IF spawned THEN TenantOk("()")
    ELSE TenantErr("attach failed")

\* what attach_tenant returns: an error for an occupied entry, worded after
\* the state of the tenant, else what Repository::spawn_attach allows
attach_tenant_returns(m, tenant_id, spawned) ==
    IF Occupied(m, tenant_id)
    THEN TenantErr(AttachError(get_state(m, tenant_id)))
    ELSE IF spawned THEN TenantOk("()")
    ELSE TenantErr("attach failed")

\* attach_tenant: a spawned Repository is inserted into the vacant entry
attach_tenant(tenant_id, spawned) ==
    /\ tm_started
    /\ WriteLockFree
    /\ tm_result' = attach_tenant_returns(tenants, tenant_id, spawned)
    /\ tenants' = IF tm_result'.ok
                  THEN [tenants EXCEPT ![tenant_id] = Append(@, "Attaching")]
                  ELSE tenants
    /\ UNCHANGED tm_started
    /\ UNCHANGED <<sd_pc, sd_todo, sd_tenant_ids, sd_i, sd_outcome>>
    /\ UNCHANGED <<backendVars, keyVars, cacheOptionsVars, pgVersionVars, entryVars>>

\* the background load or attach of a tenant ends: the tenant becomes Active,
\* or Broken when it failed.  It does not take the lock of the map.
tm_load_done(tenant_id, loaded) ==
    /\ Occupied(tenants, tenant_id)
    /\ get_state(tenants, tenant_id) \in {"Loading", "Attaching"}
    /\ tenants' = SetState(tenants, tenant_id,
                           IF loaded THEN "Active" ELSE "Broken")
    /\ UNCHANGED <<tm_started, tm_result>>
    /\ UNCHANGED <<sd_pc, sd_todo, sd_tenant_ids, sd_i, sd_outcome>>
    /\ UNCHANGED <<backendVars, keyVars, cacheOptionsVars, pgVersionVars, entryVars>>

\* what detach_tenant returns: the error of get_tenant, else Ok(()) whether
\* or not the detach task succeeded
detach_tenant_returns(m, tenant_id, detached) ==
    IF Occupied(m, tenant_id) THEN TenantOk("()")
    ELSE TenantErr("Tenant not found")

\* detach_tenant, taken at the end of its detach task: on success the entry
\* is removed, a failure is logged
detach_tenant(tenant_id, detached) ==
    /\ tm_started
    /\ Occupied(tenants, tenant_id) /\ detached => WriteLockFree
    /\ tm_result' = detach_tenant_returns(tenants, tenant_id, detached)
    /\ tenants' = IF Occupied(tenants, tenant_id) /\ detached
                  THEN [tenants EXCEPT ![tenant_id] = <<>>]
                  ELSE tenants
    /\ UNCHANGED tm_started
    /\ UNCHANGED <<sd_pc, sd_todo, sd_tenant_ids, sd_i, sd_outcome>>
    /\ UNCHANGED <<backendVars, keyVars, cacheOptionsVars, pgVersionVars, entryVars>>

\* shutdown_all_tenants takes the write lock and starts to walk the map
shutdown_all_tenants ==
    /\ tm_started
    /\ sd_pc = "idle"
    /\ sd_pc' = "marking"
    /\ sd_todo' = {id \in TenantIds : Occupied(tenants, id)}
    /\ sd_tenant_ids' = <<>>
    /\ UNCHANGED <<sd_i, sd_outcome>>
    /\ UNCHANGED <<tenants, tm_started, tm_result>>
    /\ UNCHANGED <<backendVars, keyVars, cacheOptionsVars, pgVersionVars, entryVars>>

\* mutant: a Broken tenant is stopped and collected like the others
sd_mark_broken_too(tenantid) ==
    /\ sd_pc = "marking"
    /\ tenantid \in sd_todo
    /\ sd_todo' = sd_todo \ {tenantid}
    /\ tenants' = SetState(tenants, tenantid, "Stopping")
    /\ sd_tenant_ids' = Append(sd_tenant_ids, tenantid)
    /\ UNCHANGED <<sd_pc, sd_i, sd_outcome>>
    /\ UNCHANGED <<tm_started, tm_result>>
    /\ UNCHANGED <<backendVars, keyVars, cacheOptionsVars, pgVersionVars, entryVars>>

\* one turn of the loop over m.iter_mut(): send_modify on the state of the
\* tenant; the map is walked in no particular order
sd_mark(tenantid) ==
    /\ sd_pc = "marking"
    /\ tenantid \in sd_todo
    /\ sd_todo' = sd_todo \ {tenantid}
    /\ IF get_state(tenants, tenantid) \in StoppedByShutdown
       THEN /\ tenants' = SetState(tenants, tenantid, "Stopping")
            /\ sd_tenant_ids' = Append(sd_tenant_ids, tenantid)
       ELSE UNCHANGED <<tenants, sd_tenant_ids>>
    /\ UNCHANGED <<sd_pc, sd_i, sd_outcome>>
    /\ UNCHANGED <<tm_started, tm_result>>
    /\ UNCHANGED <<backendVars, keyVars, cacheOptionsVars, pgVersionVars, entryVars>>

\* the walk is over: the write lock is released, task_mgr::shutdown_tasks
\* is awaited
sd_marked ==
    /\ sd_pc = "marking"
    /\ sd_todo = {}
    /\ sd_pc' = "shutdown_tasks"
    /\ UNCHANGED <<sd_todo, sd_tenant_ids, sd_i, sd_outcome>>
    /\ UNCHANGED <<tenants, tm_started, tm_result>>
    /\ UNCHANGED <<backendVars, keyVars, cacheOptionsVars, pgVersionVars, entryVars>>

\* the background tasks are gone: the checkpoint loop starts
sd_shutdown_tasks ==
    /\ sd_pc = "shutdown_tasks"
    /\ sd_pc' = "checkpoint"
    /\ sd_i' = 1
    /\ UNCHANGED <<sd_todo, sd_tenant_ids, sd_outcome>>
    /\ UNCHANGED <<tenants, tm_started, tm_result>>
    /\ UNCHANGED <<backendVars, keyVars, cacheOptionsVars, pgVersionVars, entryVars>>

\* one turn of the checkpoint loop: get_tenant, then repo.checkpoint();
\* either failure is logged and the loop goes on
sd_checkpoint(flushed) ==
    /\ sd_pc = "checkpoint"
    /\ sd_i <= Len(sd_tenant_ids)
    /\ LET tenant_id == sd_tenant_ids[sd_i]
       IN  sd_outcome' = [sd_outcome EXCEPT ![tenant_id] =
                            IF ~Occupied(tenants, tenant_id)
                            THEN "lookup failed"
                            ELSE IF flushed THEN "checkpointed"
                            ELSE "checkpoint failed"]
    /\ sd_i' = sd_i + 1
    /\ UNCHANGED <<sd_pc, sd_todo, sd_tenant_ids>>
    /\ UNCHANGED <<tenants, tm_started, tm_result>>
    /\ UNCHANGED <<backendVars, keyVars, cacheOptionsVars, pgVersionVars, entryVars>>

\* the vector is exhausted: shutdown_all_tenants returns
sd_return ==
    /\ sd_pc = "checkpoint"
    /\ sd_i > Len(sd_tenant_ids)
    /\ sd_pc' = "done"
    /\ UNCHANGED <<sd_todo, sd_tenant_ids, sd_i, sd_outcome>>
    /\ UNCHANGED <<tenants, tm_started, tm_result>>
    /\ UNCHANGED <<backendVars, keyVars, cacheOptionsVars, pgVersionVars, entryVars>>

\* Repository::create and spawn_attach are called for a vacant entry only,
\* the detach task is started for an occupied one only
OutcomesIf(called) == IF called THEN BOOLEAN ELSE {TRUE}

NextTenant ==
    \/ \E on_disk \in SUBSET TenantIds : init_tenant_mgr(on_disk)
    \/ \E id \in TenantIds :
          \E ok \in OutcomesIf(~Occupied(tenants, id)) : create_tenant(id, ok)
    \/ \E id \in TenantIds :
          \E ok \in OutcomesIf(~Occupied(tenants, id)) : attach_tenant(id, ok)
    \/ \E id \in TenantIds, ok \in BOOLEAN : tm_load_done(id, ok)
    \/ \E id \in TenantIds :
          \E ok \in OutcomesIf(Occupied(tenants, id)) : detach_tenant(id, ok)
    \/ shutdown_all_tenants
    \/ \E id \in TenantIds : sd_mark(id)
    \/ sd_marked
    \/ sd_shutdown_tasks
    \/ \E ok \in BOOLEAN : sd_checkpoint(ok)
    \/ sd_return

SpecTenant == Init /\ [][NextTenant]_vars

\* C37: attach_tenant on a tenant id that is in the map returns an error
\* whatever the state of the tenant, and create_tenant on such an id returns
\* Ok(None); a step that returns one of these leaves the map and the states
\* of the tenants as they were, and once the manager is started an entry is
\* added only under a vacant id by a call that returns success, so the map
\* never holds more than one Repository under a tenant id.
C37_ExistingTenantKept ==
    /\ [](\A id \in TenantIds : Len(tenants[id]) <= 1)
    /\ [](\A id \in TenantIds, ok \in BOOLEAN :
             Occupied(tenants, id) =>
                 /\ ~attach_tenant_returns(tenants, id, ok).ok
                 /\ create_tenant_returns(tenants, id, ok) = TenantOk("None"))
    /\ [][\A id \in TenantIds :
             /\ (tm_started /\ Len(tenants'[id]) > Len(tenants[id]))
                   => /\ ~Occupied(tenants, id)
                      /\ tm_result' \in {TenantOk("()"), TenantOk("Some(tenant_id)")}
             /\ (Occupied(tenants, id) /\ tm_result' # tm_result
                   /\ tm_result' \in
                        {TenantOk("None"),
                         TenantErr(AttachError(get_state(tenants, id)))})
                   => tenants' = tenants
       ]_vars

\* attach_tenant has just refused a tenant that is marked as broken, while
\* another tenant is in the map as well
C37_Witness ==
    /\ tm_result = TenantErr("is marked as broken")
    /\ \E id \in TenantIds : tenants[id] = <<"Broken">>
    /\ \A id \in TenantIds : Len(tenants[id]) = 1

\* the tenant ids that the checkpoint loop has dealt with
SdVisited == {sd_tenant_ids[k] : k \in 1 .. (sd_i - 1)}

\* C38: while shutdown_all_tenants marks the tenants, every tenant it has
\* visited that was Loading, Attaching, Active or Stopping is Stopping and
\* collected, and every Broken one is still Broken and not collected; only
\* collected tenants get a checkpoint, and after a failed checkpoint or
\* lookup the loop goes on, so that every collected tenant has been dealt
\* with when shutdown_all_tenants returns.
C38_ShutdownMarksAndCheckpoints ==
    /\ [](sd_pc = "marking" =>
            \A id \in TenantIds :
                (Occupied(tenants, id) /\ id \notin sd_todo) =>
                    \/ /\ get_state(tenants, id) = "Stopping"
                       /\ id \in Range(sd_tenant_ids)
                    \/ /\ get_state(tenants, id) = "Broken"
                       /\ id \notin Range(sd_tenant_ids))
    /\ [][\A id \in TenantIds :
             sd_mark(id) =>
                 IF get_state(tenants, id) = "Broken"
                 THEN /\ tenants' = tenants
                      /\ sd_tenant_ids' = sd_tenant_ids
                 ELSE /\ tenants' = SetState(tenants, id, "Stopping")
                      /\ sd_tenant_ids' = Append(sd_tenant_ids, id)
       ]_vars
    /\ [](\A id \in TenantIds :
             /\ sd_outcome[id] # "none" => id \in Range(sd_tenant_ids)
             /\ (sd_pc \in {"checkpoint", "done"} /\ id \in SdVisited)
                   => sd_outcome[id] # "none")
    /\ [](sd_pc = "checkpoint" =>
             \/ ENABLED sd_return
             \/ \A ok \in BOOLEAN : ENABLED sd_checkpoint(ok))
    /\ [](sd_pc = "done" => SdVisited = Range(sd_tenant_ids))

\* shutdown_all_tenants has returned: the first tenant it collected could not
\* be checkpointed or found, the second one was checkpointed
C38_Witness ==
    /\ sd_pc = "done"
    /\ Len(sd_tenant_ids) = 2
    /\ sd_outcome[sd_tenant_ids[1]] \in {"checkpoint failed", "lookup failed"}
    /\ sd_outcome[sd_tenant_ids[2]] = "checkpointed"

====
